---- MODULE Spec2Model ----
(***************************************************************************)
(* QueryFlow: the lifecycle state machine, the cache manager, the request  *)
(* handler, and the query and mutation controllers built on them.          *)
(*                                                                         *)
(* Each component has a specification of its own (SpecSM, SpecCache, ...)  *)
(* over the variables of that component; the variables of the other        *)
(* components stay at their initial value.                                 *)
(***************************************************************************)
EXTENDS Integers, Sequences, FiniteSets, TLC

VARIABLES
    now,          \* Date.now(), a clock that only moves forward
    sm,           \* StateMachine: [state, data, error, history]
    listeners,    \* StateMachine.listeners: a Set, in insertion order
    notified,     \* the listener invocations of the last transition() call:
                  \* <<listener, snapshot>>, in the order they were made
    smLast,       \* the last call on the state machine and how it ended
    smCalls,      \* the number of transition() calls accepted so far
    cache,        \* CacheManager.cache: key -> entry, NoEntry where the Map has none
    meta,         \* CacheManager.meta: key -> meta, NoMeta where the Map has none
    cacheLast,    \* the last call on the cache manager and what it returned
    lastWrite,    \* per key, the data last stored in the entry the Map holds
    callers,      \* the callers of RequestHandler.fetch and what they received
    pendingRequests, \* RequestHandler.pendingRequests: key -> operation, NoOp if none
    ops,          \* the execute() calls started so far, in order
    queries,      \* the QueryInstance objects: state machine and abortController
    qcalls,       \* the calls of QueryInstance.fetch and how far each has run
    aborted,      \* the fetch() calls whose AbortController has been aborted
    managerQueries,   \* StateManager.queries: the state of the machine for QueryKey
    muts,         \* the MutationInstance objects: state machine and context
    mcalls,       \* the calls of MutationInstance.mutate and how far each has run
    managerMutations  \* StateManager.mutations: the state of the machine for the key
                      \* of the model's mutations

smVars == <<sm, listeners, notified, smLast, smCalls>>
cacheVars == <<cache, meta, cacheLast, lastWrite>>
reqVars == <<callers, pendingRequests, ops>>
queryVars == <<queries, qcalls, aborted, managerQueries>>
mutVars == <<muts, mcalls, managerMutations>>
appVars == <<reqVars, queryVars, mutVars>>
vars == <<now, smVars, cacheVars, appVars>>

(***************************************************************************)
(* Bounds of the model.                                                    *)
(***************************************************************************)
MaxTime == 2
MaxTransitions == 3
MaxOps == 2
MaxFetches == 3
MaxMutations == 2

(***************************************************************************)
(* JavaScript values.                                                      *)
(***************************************************************************)
Undefined == "undefined"
Null == "null"

\* a ?? b
Nullish(a, b) == IF a = Undefined \/ a = Null THEN b ELSE a

Tick ==
    /\ now < MaxTime
    /\ now' = now + 1

(***************************************************************************)
(* StateMachine                                                            *)
(***************************************************************************)
State == {"idle", "loading", "success", "error", "stale"}

DataArgs == {Undefined, "d1", "d2"}
ErrorArgs == {Undefined, "e1"}
\* L1 only looks at the snapshot it is given; R1 is a listener that answers a
\* loading snapshot by calling transition('success', d2) itself
Listeners == {"L1", "R1"}

NewStateMachine ==
    [state |-> "idle", data |-> Undefined, error |-> Null, history |-> <<>>]

\* the table of isValidTransition
valid ==
    [from \in State |->
        CASE from = "idle" -> {"loading"}
          [] from = "loading" -> {"success", "error"}
          [] from = "success" -> {"loading", "stale"}
          [] from = "error" -> {"loading", "idle"}
          [] from = "stale" -> {"loading"}]

isValidTransitionLoose(from, to) == to \in valid[from] \/ (from = "idle" /\ to = "success")

isValidTransition(from, to) == to \in valid[from]

\* a mutant of doTransition: this.data = data
doTransitionOverwrite(m, newState, data, error, t) ==
    LET e == Nullish(error, Null)
        snapshot == [state |-> newState, data |-> data, error |-> e, timestamp |-> t]
    IN  [state |-> newState, data |-> data, error |-> e,
         history |-> Append(m.history, snapshot)]

\* the machine after an accepted transition(newState, data, error) at time t
doTransition(m, newState, data, error, t) ==
    LET d == Nullish(data, m.data)
        e == Nullish(error, Null)
        snapshot == [state |-> newState, data |-> d, error |-> e, timestamp |-> t]
    IN  [state |-> newState, data |-> d, error |-> e,
         history |-> Append(m.history, snapshot)]

\* what a listener does with the snapshot it is called with
Reacts(l, snapshot) == l = "R1" /\ snapshot.state = "loading"
ReactionData == "d2"

\* for (const listener of this.listeners) listener(snapshot), from the k-th
\* listener on: the deliveries in the order they are made, and the machine
\* after them.  A transition() called by a listener runs to its end, its own
\* notify() included, before the listener returns.
RECURSIVE notifyFrom(_, _, _, _, _)
notifyFrom(m, ls, k, snapshot, t) ==
    IF k > Len(ls) THEN [sm |-> m, notified |-> <<>>]
    ELSE LET inner == IF Reacts(ls[k], snapshot) /\ isValidTransition(m.state, "success")
                      THEN LET m2 == doTransition(m, "success", ReactionData, Undefined, t)
                           IN  notifyFrom(m2, ls, 1, m2.history[Len(m2.history)], t)
                      ELSE [sm |-> m, notified |-> <<>>]
             rest == notifyFrom(inner.sm, ls, k + 1, snapshot, t)
         IN  [sm |-> rest.sm,
              notified |-> <<<<ls[k], snapshot>>>> \o inner.notified \o rest.notified]

\* a mutant of notify: the listeners are called last registered first
notifyReversed(m, ls, snapshot, t) ==
    notifyFrom(m, [i \in 1..Len(ls) |-> ls[Len(ls) + 1 - i]], 1, snapshot, t)

\* notify(snapshot), called by transition() with the machine m it has just set
notify(m, ls, snapshot, t) == notifyFrom(m, ls, 1, snapshot, t)

\* transition() from the assignments on: the snapshot is pushed and notified
pushAndNotify(m, ls, newState, data, error, t) ==
    LET m1 == doTransition(m, newState, data, error, t)
    IN  notify(m1, ls, m1.history[Len(m1.history)], t)

\* a mutant of transition: the state is assigned before the table is consulted
transitionAssignFirst(newState, data, error) ==
    IF ~isValidTransition(sm.state, newState)
    THEN /\ sm' = [sm EXCEPT !.state = newState]
         /\ notified' = <<>>
         /\ smLast' = [op |-> "transition", from |-> sm.state, to |-> newState,
                       outcome |-> "threw"]
         /\ UNCHANGED listeners
    ELSE /\ sm' = pushAndNotify(sm, listeners, newState, data, error, now).sm
         /\ notified' = pushAndNotify(sm, listeners, newState, data, error, now).notified
         /\ smLast' = [op |-> "transition", from |-> sm.state, to |-> newState,
                       outcome |-> "ok"]
         /\ UNCHANGED listeners

\* transition(newState, data?, error?)
transition(newState, data, error) ==
    IF ~isValidTransition(sm.state, newState)
    THEN \* throw new Error(`Invalid state transition: ${from} -> ${to}`)
         /\ smLast' = [op |-> "transition", from |-> sm.state, to |-> newState,
                       outcome |-> "threw"]
         /\ notified' = <<>>
         /\ UNCHANGED <<sm, listeners>>
    ELSE /\ sm' = pushAndNotify(sm, listeners, newState, data, error, now).sm
         /\ notified' = pushAndNotify(sm, listeners, newState, data, error, now).notified
         /\ smLast' = [op |-> "transition", from |-> sm.state, to |-> newState,
                       outcome |-> "ok"]
         /\ UNCHANGED listeners

SeqWithout(s, x) == SelectSeq(s, LAMBDA y : y # x)
InSeq(s, x) == \E i \in 1..Len(s) : s[i] = x

\* subscribe(listener): Set.add keeps the place of a listener already there
subscribe(l) ==
    /\ listeners' = IF InSeq(listeners, l) THEN listeners ELSE Append(listeners, l)
    /\ smLast' = [op |-> "subscribe", from |-> sm.state, to |-> sm.state, outcome |-> "ok"]
    /\ UNCHANGED <<sm, notified>>

\* the disposer returned by subscribe(listener)
unsubscribe(l) ==
    /\ InSeq(listeners, l)
    /\ listeners' = SeqWithout(listeners, l)
    /\ smLast' = [op |-> "unsubscribe", from |-> sm.state, to |-> sm.state, outcome |-> "ok"]
    /\ UNCHANGED <<sm, notified>>

\* a mutant of reset: the history is kept
resetKeepsHistory ==
    /\ sm' = [NewStateMachine EXCEPT !.history = sm.history]
    /\ smLast' = [op |-> "reset", from |-> sm.state, to |-> "idle", outcome |-> "ok"]
    /\ UNCHANGED <<listeners, notified>>

\* reset()
reset ==
    /\ sm' = NewStateMachine
    /\ smLast' = [op |-> "reset", from |-> sm.state, to |-> "idle", outcome |-> "ok"]
    /\ UNCHANGED <<listeners, notified>>


NoCall == [op |-> "none", from |-> "idle", to |-> "idle", outcome |-> "ok"]

SMIdle ==
    /\ sm = NewStateMachine
    /\ listeners = <<>>
    /\ notified = <<>>
    /\ smLast = NoCall
    /\ smCalls = 0

(***************************************************************************)
(* Strings.  A string is a sequence of one-character strings, so that the  *)
(* code's string and regular-expression operations can be computed.  Path  *)
(* segments are abbreviated to one character: u = users, o = orders,       *)
(* p = posts, 1 = 123, 5 = 55; the parameter name id is kept.              *)
(***************************************************************************)
Letters == {"u", "o", "p", "i", "d"}
Digits == {"1", "5", "7"}
Alphabet == Letters \cup Digits \cup {"/", ":", "|", ",", "*", "."}

Drop(s, n) == SubSeq(s, n + 1, Len(s))

\* s.startsWith(p)
StartsWith(s, p) == Len(p) <= Len(s) /\ SubSeq(s, 1, Len(p)) = p

\* s.includes(sub)
Includes(s, sub) == \E i \in 0..(Len(s) - Len(sub)) : SubSeq(s, i + 1, i + Len(sub)) = sub

SetMin(S) == CHOOSE x \in S : \A y \in S : x <= y

\* the longest prefix of s made of characters of the set cs
RECURSIVE Run(_, _)
Run(s, cs) == IF s # <<>> /\ Head(s) \in cs THEN <<Head(s)>> \o Run(Tail(s), cs) ELSE <<>>

\* pieces.join(sep)
RECURSIVE Join(_, _)
Join(pieces, sep) ==
    IF pieces = <<>> THEN <<>>
    ELSE IF Len(pieces) = 1 THEN pieces[1]
    ELSE pieces[1] \o sep \o Join(Tail(pieces), sep)

(***************************************************************************)
(* Regular expressions, as far as the patterns of the model use them: a    *)
(* literal character, '.', an atom followed by '*', and '|' between        *)
(* alternatives.  RegExp.test is an unanchored search.                     *)
(***************************************************************************)
\* pattern.replace(/\*/g, '.*')
RECURSIVE ReplaceStars(_)
ReplaceStars(p) ==
    IF p = <<>> THEN <<>>
    ELSE (IF Head(p) = "*" THEN <<".", "*">> ELSE <<Head(p)>>) \o ReplaceStars(Tail(p))

\* the alternatives of a regular expression source, split at '|'
RECURSIVE Alternatives(_)
Alternatives(re) ==
    IF \A i \in 1..Len(re) : re[i] # "|" THEN {re}
    ELSE LET i == SetMin({j \in 1..Len(re) : re[j] = "|"})
         IN  {SubSeq(re, 1, i - 1)} \cup Alternatives(Drop(re, i))

AtomMatches(a, c) == a = "." \/ a = c

\* whether the alternative re matches a prefix of s
RECURSIVE MatchHere(_, _)
MatchHere(re, s) ==
    IF re = <<>> THEN TRUE
    ELSE IF Len(re) >= 2 /\ re[2] = "*"
         THEN \E n \in 0..Len(s) :
                 /\ \A j \in 1..n : AtomMatches(re[1], s[j])
                 /\ MatchHere(Drop(re, 2), Drop(s, n))
         ELSE /\ s # <<>>
              /\ AtomMatches(re[1], s[1])
              /\ MatchHere(Tail(re), Tail(s))

\* new RegExp(re).test(s)
RegExpTest(re, s) ==
    \E alt \in Alternatives(re) : \E n \in 0..Len(s) : MatchHere(alt, Drop(s, n))

(***************************************************************************)
(* generateCacheKey                                                        *)
(***************************************************************************)
CharRank(c) ==
    CASE c = "d" -> 1 [] c = "i" -> 2 [] c = "o" -> 3 [] c = "p" -> 4 [] c = "u" -> 5
      [] OTHER -> 0

\* a.localeCompare(b) < 0, for the parameter names of the model
RECURSIVE LexLess(_, _)
LexLess(a, b) ==
    IF a = <<>> THEN b # <<>>
    ELSE IF b = <<>> THEN FALSE
    ELSE IF Head(a) = Head(b) THEN LexLess(Tail(a), Tail(b))
    ELSE CharRank(Head(a)) < CharRank(Head(b))

\* the names of params, sorted
RECURSIVE SortedNames(_)
SortedNames(names) ==
    IF names = {} THEN <<>>
    ELSE LET m == CHOOSE x \in names : \A y \in names \ {x} : LexLess(x, y)
         IN  <<m>> \o SortedNames(names \ {m})

\* params maps a name to the string of its value
generateCacheKey(url, params) ==
    LET names == SortedNames(DOMAIN params)
        pieces == [i \in 1..Len(names) |-> names[i] \o <<":">> \o params[names[i]]]
    IN  url \o <<"|">> \o Join(pieces, <<",">>)

(***************************************************************************)
(* CacheManager                                                            *)
(***************************************************************************)
DefaultStaleTime == 5000
DefaultCacheTime == 300000

NoEntry == [data |-> Undefined, timestamp |-> -1, staleTime |-> -1, cacheTime |-> -1]
NoMeta == [url |-> <<>>, params |-> <<>>]

\* a value of a parameter record: a string, or undefined for a missing property
StrVal(s) == <<"string", s>>
UndefVal == <<"undefined", <<>>>>
ParamsGet(params, name) == IF name \in DOMAIN params THEN StrVal(params[name]) ELSE UndefVal

ID == <<"i", "d">>

\* option ?? default, for an option that is a number
OptionOr(o, default) == IF o = <<>> THEN default ELSE o[1]

\* isStale(entry), at time t
isStaleInclusive(entry, t) == t - entry.timestamp >= entry.staleTime

isStale(entry, t) == t - entry.timestamp > entry.staleTime

\* get(key), at time t
get(c, key, t) ==
    IF c[key] = NoEntry THEN Undefined
    ELSE IF isStale(c[key], t) THEN Undefined
    ELSE c[key].data

\* a mutant of afterGet: the read evicts the entry it finds stale
afterGetEvicting(c, key, t) ==
    IF c[key] # NoEntry /\ isStale(c[key], t) THEN [c EXCEPT ![key] = NoEntry] ELSE c

\* the store after get(key): get() reads the map and deletes nothing
afterGet(c, key, t) == c

\* has(key), keys() and size()
has(c, key) == c[key] # NoEntry
keys(c) == {k \in DOMAIN c : c[k] # NoEntry}
size(c) == Cardinality(keys(c))

\* set(key, data, options), at time t
set(c, key, data, options, t) ==
    [c EXCEPT ![key] = [data |-> data, timestamp |-> t,
                        staleTime |-> OptionOr(options.staleTime, DefaultStaleTime),
                        cacheTime |-> OptionOr(options.cacheTime, DefaultCacheTime)]]

\* the updaters of the model: a function of the old value, or one that throws
Updaters == {"swap", "throws"}
ApplyUpdater(u, d) == IF d = "d1" THEN "d2" ELSE "d1"

\* a mutant of updateOutcome: the entry is not looked up
updateOutcomeUnchecked(c, key, u) ==
    IF u = "throws" THEN "CacheError: failed to update" ELSE "ok"

\* update(key, updater): the cache after it, and how the call ended
updateOutcome(c, key, u) ==
    IF c[key] = NoEntry THEN "CacheError: not found"
    ELSE IF u = "throws" THEN "CacheError: failed to update"
    ELSE "ok"

update(c, key, u) ==
    IF updateOutcome(c, key, u) = "ok"
    THEN [c EXCEPT ![key].data = ApplyUpdater(u, c[key].data)]
    ELSE c

\* new RegExp('^' + ... + '$'): the pattern has to match the whole key
invalidateMatchesAnchored(pattern, key) ==
    \E alt \in Alternatives(ReplaceStars(pattern)) :
        MatchHere(alt \o <<"$">>, key \o <<"$">>)

\* the keys invalidate(pattern) deletes, for a string pattern
invalidateMatches(pattern, key) == RegExpTest(ReplaceStars(pattern), key)

\* the key invalidate(pattern) deletes, for an array pattern
invalidateArrayKey(segments) == Join(segments, <<":">>)

\* url.replace(/\/:[^/]+/g, '')
RECURSIVE StripParams(_)
StripParams(s) ==
    IF s = <<>> THEN <<>>
    ELSE IF Len(s) >= 3 /\ s[1] = "/" /\ s[2] = ":" /\ s[3] # "/"
         THEN LET name == Run(Drop(s, 2), Alphabet \ {"/"})
              IN  StripParams(Drop(s, 2 + Len(name)))
         ELSE <<Head(s)>> \o StripParams(Tail(s))

\* extractParams(url): the matches of /:([a-zA-Z_][a-zA-Z0-9_]*)/g
RECURSIVE extractParams(_)
extractParams(s) ==
    IF s = <<>> THEN {}
    ELSE IF s[1] = ":" /\ Len(s) >= 2 /\ s[2] \in Letters
         THEN LET name == Run(Tail(s), Letters \cup Digits)
              IN  {name} \cup extractParams(Drop(s, 1 + Len(name)))
         ELSE extractParams(Tail(s))

\* getParamValues(url, params)[param]: match[1] of the first match of
\* new RegExp(`:${param}([^/]|$)`) in url
getParamValue(url, param) ==
    LET pat == <<":">> \o param
        n == Len(pat)
        at == {i \in 1..(Len(url) - n + 1) :
                 /\ SubSeq(url, i, i + n - 1) = pat
                 /\ (i + n > Len(url) \/ url[i + n] # "/")}
    IN  IF param \notin extractParams(url) \/ at = {} THEN UndefVal
        ELSE LET i == SetMin(at)
             IN  IF i + n > Len(url) THEN StrVal(<<>>) ELSE StrVal(<<url[i + n]>>)

idSegment == <<"/", ":", "i", "d", "/">>

\* isRelated(url1, url2, params2)
isRelated(url1, url2, params2) ==
    IF url1 = url2 THEN FALSE
    ELSE IF Includes(url1, idSegment) /\ Includes(url2, idSegment)
         THEN getParamValue(url1, ID) = ParamsGet(params2, ID)
    ELSE IF StartsWith(url1, StripParams(url2)) THEN TRUE
    ELSE IF StartsWith(url2, StripParams(url1)) THEN TRUE
    ELSE FALSE


(***************************************************************************)
(* The strings of the model.                                               *)
(***************************************************************************)
U_user == <<"/", "u", "/", "1">>                            \* /users/123
U_userPosts == <<"/", "u", "/", "1", "/", "p">>             \* /users/123/posts
U_order == <<"/", "o", "/", "5">>                           \* /orders/55
T_user == <<"/", "u", "/", ":", "i", "d">>                  \* /users/:id
T_userPosts == <<"/", "u", "/", ":", "i", "d", "/", "p">>   \* /users/:id/posts
T_orders == <<"/", "o">>                                    \* /orders

ParamsId(v) == [n \in {ID} |-> v]
NoParams == [n \in {} |-> <<>>]

K_user == U_user
K_userPosts == U_userPosts
K_order == U_order
K_array == <<"u", ":", "1">>                                \* users:123
K_posts7 == generateCacheKey(T_userPosts, ParamsId(<<"7">>)) \* /users/:id/posts|id:7

CacheKeys == {K_user, K_userPosts, K_order, K_array, K_posts7}

Patterns ==
    { <<"/", "u", "/", "*">>,                     \* /users/*
      <<"/", "o", "/", "*">>,                     \* /orders/*
      U_user,                                     \* /users/123
      <<"1", "/", "p">>,                          \* 123/posts
      generateCacheKey(T_orders, NoParams) }      \* /orders|

ArrayPatterns == { <<<<"u">>, <<"1">>>>, <<U_order>> }

RelatedUrls == {U_user, T_user, T_userPosts}

\* the metadata a caller registers for a key: the template and its parameters,
\* or the resolved url
MetaFor(k) ==
    CASE k = K_user -> {[url |-> T_user, params |-> ParamsId(<<"1">>)],
                        [url |-> U_user, params |-> NoParams]}
      [] k = K_userPosts -> {[url |-> T_userPosts, params |-> ParamsId(<<"1">>)],
                             [url |-> U_userPosts, params |-> NoParams]}
      [] k = K_order -> {[url |-> U_order, params |-> NoParams]}
      [] k = K_posts7 -> {[url |-> T_userPosts, params |-> ParamsId(<<"7">>)]}
      [] OTHER -> {}

AllMetas == UNION {MetaFor(k) : k \in CacheKeys}

DataValues == {"d1", "d2"}

\* an option that is a number: <<n>>, or <<>> when the caller leaves it out
Unset == <<>>
StaleTimeOptions == {Unset, <<-1>>, <<1>>}
CacheOptions == [staleTime : StaleTimeOptions, cacheTime : {Unset}]
DefaultOptions == [staleTime |-> Unset, cacheTime |-> Unset]

\* what the callers of the model write under a key: every data value and option
\* under /users/123, one value with the default options under the other keys
WritesFor(k) ==
    IF k = K_user THEN DataValues \X CacheOptions ELSE {<<"d1", DefaultOptions>>}

\* the keys written and read while time passes
TimedKeys == {K_user, K_userPosts, K_order}

Present(c) == {k \in CacheKeys : c[k] # NoEntry}

\* regex.test(key) for the patterns and keys of the model, computed once
MatchTable == [p \in Patterns |-> {k \in CacheKeys : invalidateMatches(p, k)}]

\* isRelated for the urls and metadata of the model, computed once
RelatedTable == [url \in RelatedUrls |-> {m \in AllMetas : isRelated(url, m.url, m.params)}]

\* invalidate(pattern), pattern a string: the keys deleted from both maps
invalidateKeys(c, pattern) == {k \in Present(c) : k \in MatchTable[pattern]}

\* invalidateRelated(url): relatedKeys
relatedKeys(m, url) == {k \in CacheKeys : m[k] # NoMeta /\ m[k] \in RelatedTable[url]}

\* Map.delete for every key of ks
Without(f, ks, none) == [k \in CacheKeys |-> IF k \in ks THEN none ELSE f[k]]

NoCacheCall == [op |-> "none", key |-> <<>>, result |-> Undefined]
NoWrite == [data |-> Undefined, at |-> -1, window |-> -1]

CacheIdle ==
    /\ cache = [k \in CacheKeys |-> NoEntry]
    /\ meta = [k \in CacheKeys |-> NoMeta]
    /\ cacheLast = NoCacheCall
    /\ lastWrite = [k \in CacheKeys |-> NoWrite]

CacheGet ==
    \E k \in TimedKeys :
        /\ cacheLast' = [op |-> "get", key |-> k, result |-> get(cache, k, now)]
        /\ cache' = afterGet(cache, k, now)
        /\ UNCHANGED <<meta, lastWrite, now, smVars, appVars>>

CacheSetIn(ks) ==
    \E k \in ks : \E w \in WritesFor(k) :
        /\ cache' = set(cache, k, w[1], w[2], now)
        /\ lastWrite' = [lastWrite EXCEPT ![k] =
                            [data |-> w[1], at |-> now,
                             window |-> OptionOr(w[2].staleTime, DefaultStaleTime)]]
        /\ cacheLast' = [op |-> "set", key |-> <<>>, result |-> Undefined]
        /\ UNCHANGED <<meta, now, smVars, appVars>>

CacheSet == CacheSetIn(CacheKeys)
CacheSetTimed == CacheSetIn(TimedKeys)

CacheUpdate ==
    \E k \in TimedKeys, u \in Updaters :
        /\ cache' = update(cache, k, u)
        /\ lastWrite' = IF updateOutcome(cache, k, u) = "ok"
                        THEN [lastWrite EXCEPT ![k].data = ApplyUpdater(u, cache[k].data)]
                        ELSE lastWrite
        /\ cacheLast' = [op |-> "update", key |-> k, result |-> updateOutcome(cache, k, u)]
        /\ UNCHANGED <<meta, now, smVars, appVars>>

CacheSetMeta ==
    \E k \in Present(cache) : \E m \in MetaFor(k) :
        /\ meta' = [meta EXCEPT ![k] = m]
        /\ cacheLast' = [op |-> "setMeta", key |-> <<>>, result |-> Undefined]
        /\ UNCHANGED <<cache, lastWrite, now, smVars, appVars>>

CacheInvalidate ==
    \E p \in Patterns :
        /\ cache' = Without(cache, invalidateKeys(cache, p), NoEntry)
        /\ meta' = Without(meta, invalidateKeys(cache, p), NoMeta)
        /\ lastWrite' = Without(lastWrite, CacheKeys \ Present(cache'), NoWrite)
        /\ cacheLast' = [op |-> "invalidate", key |-> p, result |-> Undefined]
        /\ UNCHANGED <<now, smVars, appVars>>

CacheInvalidateArray ==
    \E a \in ArrayPatterns :
        /\ cache' = Without(cache, {invalidateArrayKey(a)}, NoEntry)
        /\ meta' = Without(meta, {invalidateArrayKey(a)}, NoMeta)
        /\ lastWrite' = Without(lastWrite, CacheKeys \ Present(cache'), NoWrite)
        /\ cacheLast' = [op |-> "invalidateArray", key |-> invalidateArrayKey(a),
                         result |-> Undefined]
        /\ UNCHANGED <<now, smVars, appVars>>

CacheInvalidateRelated ==
    \E url \in RelatedUrls :
        /\ cache' = Without(cache, relatedKeys(meta, url), NoEntry)
        /\ meta' = Without(meta, relatedKeys(meta, url), NoMeta)
        /\ lastWrite' = Without(lastWrite, CacheKeys \ Present(cache'), NoWrite)
        /\ cacheLast' = [op |-> "invalidateRelated", key |-> url, result |-> Undefined]
        /\ UNCHANGED <<now, smVars, appVars>>

CacheClear ==
    /\ cache' = [k \in CacheKeys |-> NoEntry]
    /\ meta' = [k \in CacheKeys |-> NoMeta]
    /\ lastWrite' = [k \in CacheKeys |-> NoWrite]
    /\ cacheLast' = [op |-> "clear", key |-> <<>>, result |-> Undefined]
    /\ UNCHANGED <<now, smVars, appVars>>

CacheTick == Tick /\ cacheLast' = NoCacheCall /\ UNCHANGED <<cache, meta, lastWrite, smVars, appVars>>

(***************************************************************************)
(* RequestHandler: fetch() shares one execute() among the callers that ask *)
(* for a key while it is pending; execute() runs the network call under    *)
(* withRetry(), each attempt with a timeout timer and the signal of the    *)
(* caller that started it.  A promise settles in one step and each caller  *)
(* awaiting it resumes in a later one.                                     *)
(***************************************************************************)
Callers == {"c1", "c2", "c3"}
ReqKeys == {K_user, K_order}
CallerRank(c) == CASE c = "c1" -> 1 [] c = "c2" -> 2 [] OTHER -> 3
NoOp == 0

\* the retry option: <<n>> for a number, <<>> when left out, or a boolean
RetryOptions == {Unset, <<0>>, <<1>>}
RetryFalse == <<"boolean", "false">>
RetryTrue == <<"boolean", "true">>
BooleanRetryOptions == {RetryFalse, RetryTrue, <<0>>, <<1>>}

\* the requests of the model: those for K_user leave retry out or give a
\* number, those for K_order give a boolean or a number
RetryOptionsFor(key) == IF key = K_user THEN RetryOptions ELSE BooleanRetryOptions

DefaultAttempts == 3
BaseDelayMs == 1000

\* typeof retry === 'number'; a parameter left out takes its default, 3
isNumber(retry) == Len(retry) = 1

\* typeof options.retry, as the caller gave it
typeofRetry(retry) ==
    IF retry = Unset THEN "undefined" ELSE IF isNumber(retry) THEN "number" ELSE "boolean"

attemptsOfTruthy(retry) ==
    IF isNumber(retry) THEN retry[1] ELSE IF retry = RetryFalse THEN 1 ELSE DefaultAttempts

attemptsOf(retry) == IF isNumber(retry) THEN retry[1] ELSE DefaultAttempts

Pending == [kind |-> "pending", value |-> Undefined]
Resolved(v) == [kind |-> "resolved", value |-> v]
Rejected(e) == [kind |-> "rejected", value |-> e]

NoCaller ==
    [status |-> "idle", key |-> <<>>, op |-> NoOp, role |-> "none",
     cancelled |-> FALSE, abortedIn |-> "none", outcome |-> Pending]

ReqIdle ==
    /\ callers = [c \in Callers |-> NoCaller]
    /\ pendingRequests = [k \in ReqKeys |-> NoOp]
    /\ ops = <<>>

OpIds == 1..Len(ops)
JoinedOn(o) == {c \in Callers : callers[c].op = o}

\* the signal handed to execute() is the one of the caller that started it
signalAborted(op) == callers[op.owner].cancelled

hasPendingNever(p, key) == FALSE

hasPending(p, key) == p[key] # NoOp

\* execute() up to its first suspension: withRetry() makes the first network
\* call at once, or throws 'Retry failed' when there is no attempt to make
execute(key, owner, retry) ==
    LET attempts == attemptsOf(retry)
        op == [key |-> key, owner |-> owner, retry |-> typeofRetry(retry),
               attempts |-> attempts, i |-> 0,
               failures |-> 0, lastError |-> "none", wait |-> -1]
    IN  IF attempts = 0
        THEN op @@ [phase |-> "settled", netCalls |-> 0, outcome |-> Rejected("RetryFailed")]
        ELSE op @@ [phase |-> "net", netCalls |-> 1, outcome |-> Pending]

settle(op, outcome) == [op EXCEPT !.phase = "settled", !.outcome = outcome]

executeErrorRaw(e) == e

\* the catch of execute(): an AbortError leaves as a TimeoutError
executeError(e) == IF e = "AbortError" THEN "TimeoutError" ELSE e

lastAttemptLate(op) == op.i = op.attempts

\* i === attempts - 1
lastAttempt(op) == op.i = op.attempts - 1

\* delay(i * 1000)
backoffDelay(i) == i * BaseDelayMs

\* the catch of withRetry(): the last attempt's error is thrown, any earlier
\* one is followed by delay(i * 1000)
attemptFailed(op, e) ==
    LET failed == [op EXCEPT !.failures = @ + 1, !.lastError = e]
    IN  IF lastAttempt(op)
        THEN settle(failed, Rejected(executeError(e)))
        ELSE [failed EXCEPT !.phase = "backoff", !.wait = backoffDelay(op.i)]

attemptAbortedFinal(op) == settle(op, Rejected("AbortError"))

\* fetch() rejects with an AbortError when the combined signal is aborted by
\* the caller's signal: withRetry() catches it as it catches any other error
attemptAborted(op) == attemptFailed(op, "AbortError")

\* what the network does with a call: a 2xx response with a body, a 2xx response
\* whose body is null, a response that is not ok, or no response at all
Responses == {<<"ok", d>> : d \in DataValues} \cup {<<"null">>, <<"http">>, <<"fail">>}

responded(op, r) ==
    CASE r[1] = "ok" -> settle(op, Resolved(r[2]))
      [] r[1] = "null" -> settle(op, Rejected("ValidationError"))
      [] r[1] = "http" -> settle(op, Rejected("NetworkError"))
      [] OTHER -> attemptFailed(op, "TypeError")

\* Callers are interchangeable: they are named in the order of their calls.
ReqFetch ==
    \E c \in Callers, k \in ReqKeys :
      \E r \in RetryOptionsFor(k) :
        /\ callers[c].status = "idle"
        /\ \A d \in Callers : CallerRank(d) < CallerRank(c) => callers[d].status # "idle"
        /\ IF hasPending(pendingRequests, k)
           THEN /\ callers' = [callers EXCEPT ![c] =
                      [status |-> "waiting", key |-> k, op |-> pendingRequests[k],
                       role |-> IF ops[pendingRequests[k]].phase = "settled"
                                THEN "late" ELSE "joiner",
                       cancelled |-> FALSE, abortedIn |-> "none", outcome |-> Pending]]
                /\ UNCHANGED <<ops, pendingRequests>>
           ELSE /\ Len(ops) < MaxOps
                /\ ops' = Append(ops, execute(k, c, r))
                /\ pendingRequests' = [pendingRequests EXCEPT ![k] = Len(ops) + 1]
                /\ callers' = [callers EXCEPT ![c] =
                      [status |-> "waiting", key |-> k, op |-> Len(ops) + 1,
                       role |-> "owner", cancelled |-> FALSE, abortedIn |-> "none", outcome |-> Pending]]
        /\ UNCHANGED <<now, smVars, cacheVars, queryVars, mutVars>>

\* the caller aborts the signal it passed to fetch(), while the operation it
\* waits for is in flight (later, nothing reads the signal); abortedIn records
\* what the operation was doing at that moment
ReqCallerAbort ==
    \E c \in Callers :
        /\ callers[c].status = "waiting"
        /\ ops[callers[c].op].phase # "settled"
        /\ ~callers[c].cancelled
        /\ callers' = [callers EXCEPT ![c].cancelled = TRUE,
                                      ![c].abortedIn = ops[callers[c].op].phase]
        /\ UNCHANGED <<ops, pendingRequests, now, smVars, cacheVars, queryVars, mutVars>>

ReqNetRespond ==
    \E o \in OpIds, r \in Responses :
        /\ ops[o].phase = "net"
        /\ ~signalAborted(ops[o])
        /\ ops' = [ops EXCEPT ![o] = responded(ops[o], r)]
        /\ UNCHANGED <<callers, pendingRequests, now, smVars, cacheVars, queryVars, mutVars>>

\* the timer of the attempt fires and aborts the attempt's own controller; a
\* handler without a timeout behaves as one whose timer never fires
ReqNetTimeout ==
    \E o \in OpIds :
        /\ ops[o].phase = "net"
        /\ ~signalAborted(ops[o])
        /\ ops' = [ops EXCEPT ![o] = attemptFailed(ops[o], "AbortError")]
        /\ UNCHANGED <<callers, pendingRequests, now, smVars, cacheVars, queryVars, mutVars>>

\* the network call ends with an AbortError because the signal is aborted
ReqNetAborted ==
    \E o \in OpIds :
        /\ ops[o].phase = "net"
        /\ signalAborted(ops[o])
        /\ ops' = [ops EXCEPT ![o] = attemptAborted(ops[o])]
        /\ UNCHANGED <<callers, pendingRequests, now, smVars, cacheVars, queryVars, mutVars>>

\* delay(i * 1000) is over: the loop of withRetry() makes the next attempt
ReqBackoffDone ==
    \E o \in OpIds :
        /\ ops[o].phase = "backoff"
        /\ ops' = [ops EXCEPT ![o] = [@ EXCEPT !.phase = "net", !.i = @ + 1,
                                                !.netCalls = @ + 1]]
        /\ UNCHANGED <<callers, pendingRequests, now, smVars, cacheVars, queryVars, mutVars>>

deletePendingNever(p, key) == p

\* finally { this.pendingRequests.delete(key) }
deletePending(p, key) == [p EXCEPT ![key] = NoOp]

\* a caller resumes with the outcome of the promise it awaits; the caller that
\* started the operation deletes the pending entry in its finally
ReqResume ==
    \E c \in Callers :
        /\ callers[c].status = "waiting"
        /\ ops[callers[c].op].phase = "settled"
        /\ callers' = [callers EXCEPT ![c].status = ops[callers[c].op].outcome.kind,
                                      ![c].outcome = ops[callers[c].op].outcome]
        /\ pendingRequests' = IF callers[c].role = "owner"
                              THEN deletePending(pendingRequests, callers[c].key)
                              ELSE pendingRequests
        /\ UNCHANGED <<ops, now, smVars, cacheVars, queryVars, mutVars>>

NextReq ==
    \/ ReqFetch
    \/ ReqCallerAbort
    \/ ReqNetRespond
    \/ ReqNetTimeout
    \/ ReqNetAborted
    \/ ReqBackoffDone
    \/ ReqResume

(***************************************************************************)
(* QueryInstance: fetch() aborts the controller of the call before it,     *)
(* moves the instance's state machine to loading, answers from the cache   *)
(* or asks the kernel for the request, which the kernel performs itself    *)
(* with the signal of the call.                                            *)
(***************************************************************************)
Queries == {"Q1", "Q2"}
QueryKey == K_user
NoController == 0
InvalidTransition == "Invalid state transition"

\* The options an instance is constructed with: enabled, a select function,
\* placeholderData and staleTime.
DefaultQueryOptions ==
    [enabled |-> TRUE, select |-> FALSE, placeholderData |-> Undefined, staleTime |-> Unset]

QueryOptions ==
    {DefaultQueryOptions,
     [enabled |-> TRUE, select |-> TRUE, placeholderData |-> Undefined, staleTime |-> <<0>>],
     [enabled |-> FALSE, select |-> FALSE, placeholderData |-> "placeholder", staleTime |-> Unset],
     [enabled |-> FALSE, select |-> TRUE, placeholderData |-> Undefined, staleTime |-> Unset]}

NewQuery(options) ==
    [sm |-> NewStateMachine, abortController |-> NoController,
     hasFetched |-> FALSE, options |-> options]

QueryIdle ==
    /\ queries = [q \in Queries |-> NewQuery(DefaultQueryOptions)]
    /\ qcalls = <<>>
    /\ aborted = {}
    /\ managerQueries = "idle"

QCallIds == 1..Len(qcalls)

\* The machine of an instance has one listener, handleStateChange, which emits
\* 'query:state' (or 'mutation:state') with the key and the snapshot.  The
\* state-manager plugin of the client handles the event with setQueryState (or
\* setMutationState): the machine the manager keeps for the key, idle when
\* new, makes the transition to snapshot.state.  The instances of the model
\* have one key, so the manager has one machine for them.
setState(managed, newState) ==
    IF isValidTransition(managed, newState) THEN newState ELSE managed

\* the manager's machine has no such move: its transition() throws, and the
\* error leaves through emit(), notify() and the transition() of the instance,
\* which has changed its state by then
setStateThrows(managed, newState) == ~isValidTransition(managed, newState)

\* the catch and the finally of fetch() and of mutate(): transition('error')
\* throws in its turn when the table has no such move.  moved: the machine of
\* the instance is in error now; handled: transition() returned, so that the
\* error callback is called and the error caught is thrown again
catchTransition(m, managed, e, t) ==
    IF ~isValidTransition(m.state, "error")
    THEN [sm |-> m, managed |-> managed, thrown |-> InvalidTransition,
          moved |-> FALSE, handled |-> FALSE]
    ELSE IF setStateThrows(managed, "error")
    THEN [sm |-> doTransition(m, "error", Undefined, e, t), managed |-> managed,
          thrown |-> InvalidTransition, moved |-> TRUE, handled |-> FALSE]
    ELSE [sm |-> doTransition(m, "error", Undefined, e, t),
          managed |-> setState(managed, "error"),
          thrown |-> e, moved |-> TRUE, handled |-> TRUE]

successTransitionUnchecked(m, managed, d, t) ==
    [sm |-> doTransition(m, "success", d, Undefined, t),
     managed |-> setState(managed, "success"),
     thrown |-> Undefined, moved |-> TRUE, handled |-> TRUE]

\* the try of fetch() and of mutate() once the response is there
successTransition(m, managed, d, t) ==
    IF ~isValidTransition(m.state, "success")
    THEN catchTransition(m, managed, InvalidTransition, t)
    ELSE IF setStateThrows(managed, "success")
    THEN catchTransition(doTransition(m, "success", d, Undefined, t), managed,
                         InvalidTransition, t)
    ELSE [sm |-> doTransition(m, "success", d, Undefined, t),
          managed |-> setState(managed, "success"),
          thrown |-> Undefined, moved |-> TRUE, handled |-> TRUE]

\* the ghost record of what the cache holds for a key after set()
written(lw, key, data, options, t) ==
    [lw EXCEPT ![key] = [data |-> data, at |-> t,
                         window |-> OptionOr(options.staleTime, DefaultStaleTime)]]

\* the select function of the model
Select(d) == CASE d = "d1" -> "s1" [] d = "d2" -> "s2" [] OTHER -> d

applySelectNever(options, d) == d

applySelect(options, d) == IF options.select THEN Select(d) ELSE d

isDisabledNever(options) == FALSE

\* this.options.enabled === false
isDisabled(options) == options.enabled = FALSE

getPlaceholderOrUndefined(options) == options.placeholderData

\* the options QueryInstance hands to cache.set()
CacheOptionsOf(options) == [staleTime |-> options.staleTime, cacheTime |-> Unset]

\* What a call did, in the order it did it: the transitions of the state
\* machine, the write to the cache and the callbacks with their arguments.
Moved(m) == <<"transition", m.state, m.data, m.error>>
Called(name, a, b) == <<name, a, b>>
Wrote(d) == <<"cache.set", d>>
QSettled(m) == Called("onSettled", m.data, m.error)

QCall(q, via, pc, sent, fromCache, result, superseding) ==
    [query |-> q, via |-> via, pc |-> pc, sent |-> sent, fromCache |-> fromCache,
     result |-> result, superseding |-> superseding,
     otherPending |-> \E j \in QCallIds : qcalls[j].query # q /\ qcalls[j].pc = "net",
     refusedBy |-> "none", log |-> <<>>, seen |-> Undefined]

\* the two ways into fetch(): refetch() is `return this.fetch()`
EntryPoints == {"fetch", "refetch"}

\* fetch() up to the await of the request
QueryFetch ==
    \E q \in Queries, via \in EntryPoints :
        LET id == Len(qcalls) + 1
            old == queries[q].abortController
            superseding == old # NoController /\ qcalls[old].pc = "net"
            m == queries[q].sm
            o == queries[q].options
            loading == doTransition(m, "loading", Undefined, Undefined, now)
            cachedData == get(cache, QueryKey, now)
            data == applySelect(o, cachedData)
            hit == doTransition(loading, "success", data, Undefined, now)
            handed == [queries[q] EXCEPT !.abortController = id]
        IN  /\ Len(qcalls) < MaxFetches
            /\ aborted' = IF old # NoController THEN aborted \cup {old} ELSE aborted
            /\ IF isDisabled(o)
               THEN /\ queries' = [queries EXCEPT ![q] = handed]
                    /\ qcalls' = Append(qcalls,
                          QCall(q, via, "resolved", FALSE, FALSE,
                                getPlaceholderOrUndefined(o), superseding))
               ELSE IF ~isValidTransition(m.state, "loading")
               THEN /\ queries' = [queries EXCEPT ![q] = handed]
                    /\ qcalls' = Append(qcalls,
                          [QCall(q, via, "rejected", FALSE, FALSE, InvalidTransition,
                                 superseding) EXCEPT !.refusedBy = "machine"])
               ELSE IF setStateThrows(managerQueries, "loading")
               THEN /\ queries' = [queries EXCEPT ![q] = [handed EXCEPT !.sm = loading]]
                    /\ qcalls' = Append(qcalls,
                          [QCall(q, via, "rejected", FALSE, FALSE, InvalidTransition,
                                 superseding) EXCEPT !.refusedBy = "manager",
                                                     !.log = <<Moved(loading)>>])
               ELSE IF cachedData # Undefined
               THEN /\ queries' = [queries EXCEPT ![q] =
                          [handed EXCEPT !.sm = hit, !.abortController = NoController,
                                         !.hasFetched = TRUE]]
                    /\ qcalls' = Append(qcalls,
                          [QCall(q, via, "resolved", FALSE, TRUE, data, superseding)
                              EXCEPT !.log = <<Moved(loading), Moved(hit),
                                               Called("onSuccess", data, Undefined),
                                               QSettled(hit)>>])
               ELSE /\ queries' = [queries EXCEPT ![q] = [handed EXCEPT !.sm = loading]]
                    /\ qcalls' = Append(qcalls,
                          [QCall(q, via, "net", TRUE, FALSE, Undefined, superseding)
                              EXCEPT !.log = <<Moved(loading)>>])
            /\ managerQueries' =
                  IF isDisabled(o) \/ ~isValidTransition(m.state, "loading")
                  THEN managerQueries
                  ELSE IF setStateThrows(managerQueries, "loading") THEN managerQueries
                  ELSE IF cachedData # Undefined
                  THEN setState(setState(managerQueries, "loading"), "success")
                  ELSE setState(managerQueries, "loading")
            /\ UNCHANGED <<now, smVars, cacheVars, reqVars, mutVars>>

\* what the network does with the kernel's request: a response with a body, or
\* a response that is not ok (the kernel throws an Error for it, as fetch does
\* when there is no response at all)
QueryResponses == {<<"ok", d>> : d \in DataValues} \cup {<<"http">>}

\* the log of a call that ends in the catch of fetch()
QFailedLog(after, e) ==
    (IF after.moved THEN <<Moved(after.sm)>> ELSE <<>>)
    \o (IF after.handled THEN <<Called("onError", after.thrown, Undefined)>> ELSE <<>>)
    \o <<QSettled(after.sm)>>

QueryNetRespond ==
    \E i \in QCallIds, r \in QueryResponses :
        LET q == qcalls[i].query
            o == queries[q].options
            data == applySelect(o, r[2])
            after == IF r[1] = "ok"
                     THEN successTransition(queries[q].sm, managerQueries, data, now)
                     ELSE catchTransition(queries[q].sm, managerQueries, "HTTP error", now)
            ok == after.thrown = Undefined
        IN  /\ qcalls[i].pc = "net"
            /\ i \notin aborted
            /\ queries' = [queries EXCEPT ![q] =
                  [sm |-> after.sm, abortController |-> NoController,
                   hasFetched |-> IF ok THEN TRUE ELSE queries[q].hasFetched,
                   options |-> o]]
            /\ qcalls' = [qcalls EXCEPT
                  ![i].pc = IF ok THEN "resolved" ELSE "rejected",
                  ![i].result = IF ok THEN data ELSE after.thrown,
                  ![i].seen = IF ok THEN get(cache, QueryKey, now) ELSE @,
                  ![i].log = @ \o (IF ok
                                   THEN <<Moved(after.sm), Wrote(r[2]),
                                          Called("onSuccess", data, Undefined),
                                          QSettled(after.sm)>>
                                   ELSE QFailedLog(after, after.thrown))]
            /\ cache' = IF ok THEN set(cache, QueryKey, r[2], CacheOptionsOf(o), now)
                        ELSE cache
            /\ lastWrite' = IF ok THEN written(lastWrite, QueryKey, r[2], CacheOptionsOf(o), now)
                            ELSE lastWrite
            /\ managerQueries' = after.managed
            /\ UNCHANGED <<aborted, meta, cacheLast, now, smVars, reqVars, mutVars>>

\* the request of an aborted call ends with an AbortError
QueryNetAborted ==
    \E i \in QCallIds :
        LET q == qcalls[i].query
            after == catchTransition(queries[q].sm, managerQueries, "AbortError", now)
        IN  /\ qcalls[i].pc = "net"
            /\ i \in aborted
            /\ queries' = [queries EXCEPT ![q].sm = after.sm,
                                          ![q].abortController = NoController]
            /\ qcalls' = [qcalls EXCEPT ![i].pc = "rejected", ![i].result = after.thrown,
                                        ![i].log = @ \o QFailedLog(after, after.thrown)]
            /\ managerQueries' = after.managed
            /\ UNCHANGED <<aborted, now, smVars, cacheVars, reqVars, mutVars>>

\* what fetchSafe() resolves to, given how its fetch() ended
fetchSafe(call) ==
    IF call.pc = "resolved"
    THEN [data |-> call.result, error |-> Null]
    ELSE [data |-> Null, error |-> call.result]

(***************************************************************************)
(* MutationInstance: mutate() moves the instance's state machine to        *)
(* loading, awaits onMutate, applies the optimistic function to the cache, *)
(* sends the write itself and, at the answer, goes to success and          *)
(* invalidates, or calls rollback() and goes to error.                     *)
(***************************************************************************)
Muts == {"M1", "M2"}
MutUrl == T_user
MutKey == K_user
\* every call is made with variables of its own
VariablesOf(id) == CASE id = 1 -> "x1" [] id = 2 -> "x2" [] id = 3 -> "x3" [] OTHER -> "x4"
NoContext == Null

\* the options of the plain instance of the model: an optimistic function that
\* writes the variables to the cache, and nothing else
DefaultMutationOptions ==
    [onMutate |-> "none", optimistic |-> "set", invalidates |-> "none", onRollback |-> "none",
     onSuccess |-> "none", onInvalidate |-> "none"]

NewMutationWith(options) ==
    [sm |-> NewStateMachine, optimisticContext |-> NoContext, options |-> options]

NewMutation == NewMutationWith(DefaultMutationOptions)

MutIdle ==
    /\ muts = [m \in Muts |-> NewMutation]
    /\ mcalls = <<>>
    /\ managerMutations = "idle"

MCallIds == 1..Len(mcalls)

\* The options an instance is constructed with: onMutate (none, one that
\* returns a context, one that throws), what the optimistic function does with
\* the cache (nothing, set(MutKey, variables), throw, set(MutKey, variables)
\* and then throw), the invalidates option, what the handler registered on
\* the kernel for 'mutation:rollback' does (there is none, or it throws),
\* what onSuccess does (there is none, or it throws), and what a handler
\* registered on the kernel for 'cache:invalidate' after the plugin's does
\* (there is none, or it throws).
MutationOptions ==
    {DefaultMutationOptions,
     [DefaultMutationOptions EXCEPT !.onMutate = "context", !.invalidates = "auto"],
     [DefaultMutationOptions EXCEPT !.optimistic = "throws", !.invalidates = "list"],
     [DefaultMutationOptions EXCEPT !.onMutate = "throws", !.optimistic = "none"],
     [DefaultMutationOptions EXCEPT !.onMutate = "context", !.onRollback = "throws"],
     [DefaultMutationOptions EXCEPT !.optimistic = "setThenThrows"],
     [DefaultMutationOptions EXCEPT !.onSuccess = "throws"],
     [DefaultMutationOptions EXCEPT !.invalidates = "list", !.onInvalidate = "throws"]}

\* the context the onMutate of the model returns: one per variables
ContextOf(x) == CASE x = "x1" -> "ctx1" [] x = "x2" -> "ctx2" [] x = "x3" -> "ctx3"
                  [] OTHER -> "ctx4"

RollbackError == "rollback handler error"
SuccessError == "onSuccess error"
InvalidateError == "invalidate handler error"

\* what executeMutation() throws: the QueryFlowError of a response that is not
\* ok, or the TypeError of fetch
WriteErrors == {"NETWORK_ERROR", "TypeError"}

\* the invalidates list of the model: one pattern
InvalidatesList == <<<<"/", "u", "/", "*">>>>

EntryData(c, key) == IF c[key] = NoEntry THEN Undefined ELSE c[key].data

\* rollback(): emits 'mutation:rollback', an event nothing listens to
rollback(c) == c

\* handleInvalidation(): the keys the plugin's handlers delete
handleInvalidation(c, m, invalidates) ==
    CASE invalidates = "auto" -> relatedKeys(m, MutUrl)
      [] invalidates = "list" -> {invalidateArrayKey(InvalidatesList)}
      [] OTHER -> {}

\* the kinds of optimistic function that reach cache.set() before they end
optimisticWrites(kind) == kind \in {"set", "setThenThrows"}

\* the kinds of optimistic function that throw
optimisticThrows(kind) == kind \in {"throws", "setThenThrows"}

\* the catch around the optimistic function: this.optimisticContext = context
afterOptimistic(inst, kind, context) ==
    IF optimisticThrows(kind) THEN [inst EXCEPT !.optimisticContext = context] ELSE inst

\* the optimistic function, inside its try: the cache after it
applyOptimistic(c, kind, x, t) ==
    IF optimisticWrites(kind) THEN set(c, MutKey, x, DefaultOptions, t) ELSE c

\* What a call of mutate() did, in the order it did it.
Sent(x) == <<"request", x>>
Rolled(ctx) == <<"rollback", ctx>>
Invalidated(mode) == <<"invalidate", mode>>
onErrorArgs(e, x, ctx) == <<"onError", e, x, ctx>>
onSuccessArgs(d, x) == <<"onSuccess", d, x>>
MSettled(m, x) == <<"onSettled", m.data, m.error, x>>

MCall(m, o, x) ==
    [mut |-> m, options |-> o, variables |-> x, pc |-> "rejected", accepted |-> FALSE,
     overlapping |-> \E j \in MCallIds : mcalls[j].pc \in {"onMutate", "net"},
     applied |-> FALSE, sent |-> FALSE, failed |-> FALSE,
     before |-> EntryData(cache, MutKey), result |-> InvalidTransition,
     onErrorContext |-> Undefined, context |-> Undefined, refusedBy |-> "machine",
     log |-> <<>>]

\* mutate() from the optimistic function to the network call
sendMutation(call) ==
    [call EXCEPT !.pc = "net", !.sent = TRUE, !.applied = call.options.optimistic = "set",
                 !.log = @ \o <<Sent(call.variables)>>]

MutMutate ==
    \E m \in Muts :
        LET id == Len(mcalls) + 1
            o == muts[m].options
            x == VariablesOf(id)
            loading == doTransition(muts[m].sm, "loading", Undefined, Undefined, now)
            call == [MCall(m, o, x) EXCEPT !.accepted = TRUE, !.result = Undefined,
                                           !.refusedBy = "none",
                                           !.log = <<Moved(loading)>>]
        IN  /\ Len(mcalls) < MaxMutations
            /\ IF ~isValidTransition(muts[m].sm.state, "loading")
               THEN /\ mcalls' = Append(mcalls, MCall(m, o, x))
                    /\ UNCHANGED <<muts, cache, lastWrite, managerMutations>>
               ELSE IF setStateThrows(managerMutations, "loading")
               THEN /\ muts' = [muts EXCEPT ![m].sm = loading]
                    /\ mcalls' = Append(mcalls,
                          [MCall(m, o, x) EXCEPT !.refusedBy = "manager",
                                                 !.log = <<Moved(loading)>>])
                    /\ UNCHANGED <<cache, lastWrite, managerMutations>>
               ELSE /\ managerMutations' = setState(managerMutations, "loading")
                    /\ muts' = [muts EXCEPT ![m] =
                          IF o.onMutate # "none" THEN [@ EXCEPT !.sm = loading]
                          ELSE afterOptimistic([@ EXCEPT !.sm = loading], o.optimistic,
                                               Undefined)]
                    /\ IF o.onMutate # "none"
                       THEN /\ mcalls' = Append(mcalls, [call EXCEPT !.pc = "onMutate"])
                            /\ UNCHANGED <<cache, lastWrite>>
                       ELSE /\ mcalls' = Append(mcalls, sendMutation(call))
                            /\ cache' = applyOptimistic(cache, o.optimistic, x, now)
                            /\ lastWrite' = IF optimisticWrites(o.optimistic)
                                            THEN written(lastWrite, MutKey, x, DefaultOptions, now)
                                            ELSE lastWrite
            /\ UNCHANGED <<meta, cacheLast, now, smVars, reqVars, queryVars>>

\* the catch of mutate() for error e: rollback() emits 'mutation:rollback' and
\* EventBus.emit() calls its handlers unguarded, so a handler that throws ends
\* the catch there
catchMutation(m, managed, onRollback, e, t) ==
    IF onRollback = "throws"
    THEN [sm |-> m, managed |-> managed, thrown |-> RollbackError,
          moved |-> FALSE, handled |-> FALSE]
    ELSE catchTransition(m, managed, e, t)

\* the log of a call that ends in the catch of mutate()
MFailedLog(after, x, ctx) ==
    <<Rolled(ctx)>>
    \o (IF after.moved THEN <<Moved(after.sm)>> ELSE <<>>)
    \o (IF after.handled THEN <<onErrorArgs(after.thrown, x, ctx)>> ELSE <<>>)
    \o <<MSettled(after.sm, x)>>

\* the catch and the finally of mutate() for call i with error e, entered with
\* the machine of the instance as reached and the manager's as managed, after
\* the try has logged done and the invalidation has deleted the keys gone
mutateFailedFrom(i, e, reached, managed, done, gone) ==
    LET m == mcalls[i].mut
        ctx == muts[m].optimisticContext
        after == catchMutation(reached, managed, mcalls[i].options.onRollback, e, now)
    IN  /\ muts' = [muts EXCEPT ![m].sm = after.sm, ![m].optimisticContext = NoContext]
        /\ managerMutations' = after.managed
        /\ mcalls' = [mcalls EXCEPT ![i].pc = "rejected", ![i].result = after.thrown,
                                    ![i].failed = e \in WriteErrors,
                                    ![i].onErrorContext =
                                        IF after.handled THEN ctx ELSE Undefined,
                                    ![i].log = @ \o done
                                                  \o MFailedLog(after, mcalls[i].variables, ctx)]
        /\ cache' = Without(rollback(cache), gone, NoEntry)
        /\ meta' = Without(meta, gone, NoMeta)
        /\ lastWrite' = IF gone = {} THEN lastWrite
                        ELSE Without(lastWrite, CacheKeys \ Present(cache'), NoWrite)

\* the same, for an error thrown before the transition to success
mutateFailed(i, e) ==
    mutateFailedFrom(i, e, muts[mcalls[i].mut].sm, managerMutations, <<>>, {})

\* the awaited onMutate is back
MutOnMutateDone ==
    \E i \in MCallIds :
        LET m == mcalls[i].mut
            o == mcalls[i].options
        IN  /\ mcalls[i].pc = "onMutate"
            /\ IF o.onMutate = "throws"
               THEN mutateFailed(i, "onMutate error")
               ELSE /\ muts' = [muts EXCEPT ![m] =
                          afterOptimistic([@ EXCEPT !.optimisticContext =
                                                       ContextOf(mcalls[i].variables)],
                                          o.optimistic, ContextOf(mcalls[i].variables))]
                    /\ mcalls' = [mcalls EXCEPT ![i] =
                          sendMutation([mcalls[i] EXCEPT
                                           !.context = ContextOf(mcalls[i].variables)])]
                    /\ cache' = applyOptimistic(cache, o.optimistic, mcalls[i].variables, now)
                    /\ lastWrite' = IF optimisticWrites(o.optimistic)
                                    THEN written(lastWrite, MutKey, mcalls[i].variables,
                                                 DefaultOptions, now)
                                    ELSE lastWrite
                    /\ UNCHANGED <<meta, managerMutations>>
            /\ UNCHANGED <<cacheLast, now, smVars, reqVars, queryVars>>

\* what the network does with the write: a response with a body, a response
\* that is not ok, or no response at all
MutResponses == {<<"ok", "d1">>, <<"http">>, <<"fail">>}

MutRespond ==
    \E i \in MCallIds, r \in MutResponses :
        LET m == mcalls[i].mut
            o == mcalls[i].options
            x == mcalls[i].variables
            after == successTransition(muts[m].sm, managerMutations, r[2], now)
            success == doTransition(muts[m].sm, "success", r[2], Undefined, now)
            gone == handleInvalidation(cache, meta, o.invalidates)
        IN  /\ mcalls[i].pc = "net"
            /\ IF r[1] = "ok" /\ after.thrown = Undefined /\ o.onSuccess = "throws"
               THEN mutateFailedFrom(i, SuccessError, success, after.managed,
                                     <<Moved(success), onSuccessArgs(r[2], x)>>, {})
               ELSE IF r[1] = "ok" /\ after.thrown = Undefined /\ o.onInvalidate = "throws"
               THEN mutateFailedFrom(i, InvalidateError, success, after.managed,
                                     <<Moved(success), onSuccessArgs(r[2], x),
                                       Invalidated(o.invalidates)>>, gone)
               ELSE IF r[1] = "ok" /\ after.thrown = Undefined
               THEN /\ muts' = [muts EXCEPT ![m].sm = after.sm,
                                            ![m].optimisticContext = NoContext]
                    /\ managerMutations' = after.managed
                    /\ mcalls' = [mcalls EXCEPT
                          ![i].pc = "resolved", ![i].result = r[2],
                          ![i].log = @ \o <<Moved(after.sm),
                                            onSuccessArgs(r[2], mcalls[i].variables),
                                            Invalidated(mcalls[i].options.invalidates),
                                            MSettled(after.sm, mcalls[i].variables)>>]
                    /\ cache' = Without(cache, gone, NoEntry)
                    /\ meta' = Without(meta, gone, NoMeta)
                    /\ lastWrite' = Without(lastWrite, CacheKeys \ Present(cache'), NoWrite)
               ELSE IF r[1] = "ok"
               THEN mutateFailedFrom(i, InvalidTransition,
                                     IF isValidTransition(muts[m].sm.state, "success")
                                     THEN success ELSE muts[m].sm,
                                     managerMutations,
                                     IF isValidTransition(muts[m].sm.state, "success")
                                     THEN <<Moved(success)>> ELSE <<>>, {})
               ELSE /\ mutateFailed(i, IF r[1] = "http" THEN "NETWORK_ERROR" ELSE "TypeError")
            /\ UNCHANGED <<cacheLast, now, smVars, reqVars, queryVars>>

MutReset ==
    \E m \in Muts :
        /\ muts[m] # NewMutationWith(muts[m].options)
        /\ muts' = [muts EXCEPT ![m] = NewMutationWith(muts[m].options)]
        /\ UNCHANGED <<mcalls, managerMutations, now, smVars, cacheVars, reqVars, queryVars>>

\* The options of the instances are fixed when they are constructed.  The
\* cache a mutation finds: MutKey absent, or written by an earlier query.
InitMut ==
    /\ now = 0 /\ SMIdle /\ ReqIdle /\ QueryIdle
    /\ \E o \in MutationOptions :
          muts = [m \in Muts |-> IF m = "M1" THEN NewMutationWith(o) ELSE NewMutation]
    /\ mcalls = <<>>
    /\ managerMutations = "idle"
    /\ meta = [k \in CacheKeys |-> NoMeta]
    /\ cacheLast = NoCacheCall
    /\ \E d \in {Undefined, "d1"} :
          /\ cache = IF d = Undefined THEN [k \in CacheKeys |-> NoEntry]
                     ELSE set([k \in CacheKeys |-> NoEntry], MutKey, d, DefaultOptions, 0)
          /\ lastWrite = IF d = Undefined THEN [k \in CacheKeys |-> NoWrite]
                         ELSE written([k \in CacheKeys |-> NoWrite], MutKey, d, DefaultOptions, 0)

NextMut ==
    \/ MutMutate
    \/ MutOnMutateDone
    \/ MutRespond
    \/ MutReset

SpecMut == InitMut /\ [][NextMut]_vars

AppIdle == ReqIdle /\ QueryIdle /\ MutIdle

\* the options of the instances are fixed when they are constructed
InitQuery ==
    /\ now = 0 /\ SMIdle /\ CacheIdle /\ ReqIdle /\ MutIdle
    /\ \E o \in QueryOptions :
          queries = [q \in Queries |-> IF q = "Q1" THEN NewQuery(o)
                                       ELSE NewQuery(DefaultQueryOptions)]
    /\ qcalls = <<>>
    /\ aborted = {}
    /\ managerQueries = "idle"

\* the cache is shared: another part of the program may clear it
NextQuery ==
    \/ QueryFetch
    \/ QueryNetRespond
    \/ QueryNetAborted
    \/ CacheClear

SpecQuery == InitQuery /\ [][NextQuery]_vars

InitReq == now = 0 /\ SMIdle /\ CacheIdle /\ AppIdle
SpecReq == InitReq /\ [][NextReq]_vars

InitCache == now = 0 /\ SMIdle /\ CacheIdle /\ AppIdle

\* reads, writes, updates and pattern invalidation of three keys, as time passes
NextCache ==
    \/ CacheGet
    \/ CacheSetTimed
    \/ CacheUpdate
    \/ CacheInvalidate
    \/ CacheClear
    \/ CacheTick

SpecCache == InitCache /\ [][NextCache]_vars

\* writes, relationship metadata and every invalidation, of all keys, within one
\* tick
NextRelated ==
    \/ CacheSet
    \/ CacheSetMeta
    \/ CacheInvalidate
    \/ CacheInvalidateArray
    \/ CacheInvalidateRelated
    \/ CacheClear

SpecRelated == InitCache /\ [][NextRelated]_vars

(***************************************************************************)
(* The specification of the state machine.                                 *)
(***************************************************************************)
InitSM == now = 0 /\ SMIdle /\ CacheIdle /\ AppIdle

SMTransition ==
    /\ smCalls < MaxTransitions
    /\ \E s \in State, d \in DataArgs, e \in ErrorArgs : transition(s, d, e)
    /\ smCalls' = IF smLast'.outcome = "ok" THEN smCalls + 1 ELSE smCalls
    /\ UNCHANGED <<now, cacheVars, appVars>>

SMSubscribe == (\E l \in Listeners : subscribe(l)) /\ UNCHANGED <<now, smCalls, cacheVars, appVars>>
SMUnsubscribe == (\E l \in Listeners : unsubscribe(l)) /\ UNCHANGED <<now, smCalls, cacheVars, appVars>>
SMReset == reset /\ UNCHANGED <<now, smCalls, cacheVars, appVars>>

\* The machine never reads the clock it stamps its snapshots with: the calls of
\* this specification are made within one tick.
NextSM == SMTransition \/ SMSubscribe \/ SMUnsubscribe \/ SMReset

SpecSM == InitSM /\ [][NextSM]_vars

(***************************************************************************)
(* C1: if mutate() is given an optimistic function that sets cache key K   *)
(* to X and the network write then fails, then when mutate() settles K     *)
(* holds exactly the value it had before the call, or is absent if it was  *)
(* absent before, and not X.                                               *)
(***************************************************************************)
\* no other call of the run wrote K
OnlyWriter(i) == \A j \in MCallIds : j # i => ~mcalls[j].applied

C1_FailedMutationRestores ==
    \A i \in MCallIds :
        (/\ mcalls[i].pc = "rejected"
         /\ mcalls[i].applied
         /\ mcalls[i].result \in {"NETWORK_ERROR", "TypeError"}
         /\ OnlyWriter(i)) =>
            EntryData(cache, MutKey) = mcalls[i].before

(***************************************************************************)
(* C2: starting from idle, a transition() call is accepted iff the pair    *)
(* (current phase, requested phase) is one of the eight pairs of the       *)
(* table, so idle followed by the phases of the recorded snapshots is a    *)
(* path of the table.                                                      *)
(***************************************************************************)
ClaimTable ==
    { <<"idle", "loading">>, <<"loading", "success">>, <<"loading", "error">>,
      <<"success", "loading">>, <<"success", "stale">>, <<"error", "loading">>,
      <<"error", "idle">>, <<"stale", "loading">> }

HistoryPhase(i) == IF i = 0 THEN "idle" ELSE sm.history[i].state

Settled(c) == callers[c].status \in {"resolved", "rejected"}

\* as stated: an operation that a second caller joined in flight makes one
\* network call
C4_PerformOnce ==
    \A o \in OpIds :
        (\E c \in JoinedOn(o) : callers[c].role = "joiner") =>
            /\ ops[o].netCalls = 1
            /\ \A c \in JoinedOn(o) : Settled(c) => callers[c].outcome = ops[o].outcome

\* as the code has it: joining starts nothing.  A key has one operation in
\* flight, the callers that ask for it meanwhile wait for that operation and
\* receive its outcome, and the network is called once for each attempt of the
\* operation: once when the first attempt is answered, again after each attempt
\* that failed and is retried, never when the retry option is 0.
C4_OneOperation ==
    /\ \A c \in Callers : callers[c].status # "idle" =>
            /\ ops[callers[c].op].key = callers[c].key
            /\ Settled(c) => /\ ops[callers[c].op].phase = "settled"
                             /\ callers[c].outcome = ops[callers[c].op].outcome
                             /\ callers[c].status = callers[c].outcome.kind
    /\ \A o \in OpIds :
            /\ ops[o].netCalls = IF ops[o].attempts = 0 THEN 0 ELSE ops[o].i + 1
            /\ ops[o].netCalls <= ops[o].attempts
    /\ \A o1, o2 \in OpIds :
            (o1 # o2 /\ ops[o1].key = ops[o2].key) =>
                (ops[o1].phase = "settled" \/ ops[o2].phase = "settled")

C4_JoinStartsNothing ==
    \A c \in Callers :
        (/\ callers[c].status = "idle"
         /\ callers'[c].status = "waiting"
         /\ pendingRequests[callers'[c].key] # NoOp) =>
            /\ ops' = ops
            /\ callers'[c].op = pendingRequests[callers'[c].key]

C4_SharedOperation == []C4_OneOperation /\ [][C4_JoinStartsNothing]_vars

C4_Witness ==
    \E o \in OpIds : \E c, d \in JoinedOn(o) :
        /\ callers[c].role = "owner" /\ callers[d].role = "joiner"
        /\ callers[c].status = "resolved" /\ callers[d].status = "resolved"
        /\ callers[d].outcome = Resolved("d2")
        /\ ops[o].netCalls = 2

(***************************************************************************)
(* C5: read(key) returns the data of the most recent write exactly when an *)
(* entry for key exists and now - writtenAt <= staleAfterMs, and absent    *)
(* otherwise: a write with staleAfterMs = -1 is absent at once, a write    *)
(* with a positive window is read back unchanged until the window elapses. *)
(***************************************************************************)
C5_ReadFreshWrite ==
    cacheLast.op = "get" =>
        LET k == cacheLast.key
            w == lastWrite[k]
        IN  /\ cacheLast.result =
                  IF cache[k] # NoEntry /\ now - w.at <= w.window THEN w.data ELSE Undefined
            /\ (cache[k] # NoEntry /\ w.window = -1) => cacheLast.result = Undefined
            /\ (cache[k] # NoEntry /\ w.window > 0 /\ now - w.at <= w.window)
                  => cacheLast.result = w.data

C5_Witness ==
    /\ cacheLast.op = "get" /\ cacheLast.key = K_user
    /\ cacheLast.result = "d2"
    /\ lastWrite[K_user].window = 1 /\ now = lastWrite[K_user].at + 1

(***************************************************************************)
(* C6: invalidate(matcher) removes every stored key that matches and       *)
(* leaves every other entry untouched; a string matcher matches the keys   *)
(* matching the glob in which '*' stands for any characters, an array      *)
(* matcher the single key formed by joining its segments.                  *)
(***************************************************************************)
\* whether the whole of s matches the glob p
RECURSIVE GlobMatch(_, _)
GlobMatch(p, s) ==
    IF p = <<>> THEN s = <<>>
    ELSE IF Head(p) = "*"
         THEN \E n \in 0..Len(s) : GlobMatch(Tail(p), Drop(s, n))
         ELSE s # <<>> /\ Head(s) = Head(p) /\ GlobMatch(Tail(p), Tail(s))

C6_InvalidateGlob ==
    [][/\ cacheLast'.op = "invalidate" =>
            \A k \in CacheKeys :
                cache'[k] = IF GlobMatch(cacheLast'.key, k) THEN NoEntry ELSE cache[k]
       /\ cacheLast'.op = "invalidateArray" =>
            \A k \in CacheKeys :
                cache'[k] = IF k = cacheLast'.key THEN NoEntry ELSE cache[k]]_vars

(***************************************************************************)
(* C7: invalidateRelated('/users/123') on a store holding entries for      *)
(* /users/123 and /users/123/posts removes both; on a store holding        *)
(* /users/123 and /orders/55 it removes /users/123 and keeps /orders/55.   *)
(* The entries are taken with their relationship metadata registered.      *)
(***************************************************************************)
Holds(c, m, k) == c[k] # NoEntry /\ m[k] # NoMeta

C7_InvalidateRelatedUser ==
    [][(cacheLast'.op = "invalidateRelated" /\ cacheLast'.key = U_user) =>
          /\ (Holds(cache, meta, K_user) /\ Holds(cache, meta, K_userPosts))
                => (cache'[K_user] = NoEntry /\ cache'[K_userPosts] = NoEntry)
          /\ (Holds(cache, meta, K_user) /\ Holds(cache, meta, K_order))
                => (cache'[K_user] = NoEntry /\ cache'[K_order] = cache[K_order])]_vars

(***************************************************************************)
(* C8: a fetch() called on a query instance whose previous fetch() is      *)
(* still pending supersedes it: the earlier request is aborted, and the    *)
(* new call performs its own request and settles with its outcome.         *)
(***************************************************************************)
C8_NewFetchSupersedes ==
    \A i \in QCallIds :
        qcalls[i].superseding =>
            /\ qcalls[i].sent \/ qcalls[i].fromCache
            /\ qcalls[i].result # InvalidTransition

(***************************************************************************)
(* C9: mutate() calls may overlap, on one instance or on instances that    *)
(* edit the same cache key: each overlapping call is accepted and runs to  *)
(* its own outcome, and the restore of a call that fails does not          *)
(* overwrite the optimistic value of a sibling that is still pending.      *)
(***************************************************************************)
C9_SiblingPending(i) ==
    \E j \in MCallIds : j > i /\ mcalls[j].pc = "net" /\ mcalls[j].applied

C9_OverlappingMutations ==
    /\ [](\A i \in MCallIds : mcalls[i].overlapping => mcalls[i].accepted)
    /\ [][\A i \in MCallIds :
            (mcalls[i].pc = "net" /\ mcalls'[i].pc = "rejected" /\ C9_SiblingPending(i))
                => cache'[MutKey] = cache[MutKey]]_vars

(***************************************************************************)
(* C10: cancellation is per caller.  When one of the callers joined on an  *)
(* in-flight key aborts through its signal, only that caller's operation   *)
(* ends and the other joined callers still receive the result; the network *)
(* operation is aborted only when the last remaining joiner cancels.       *)
(***************************************************************************)
C10_NetworkAbortedBySignal(o) ==
    ops[o].phase = "net" /\ signalAborted(ops[o]) /\ ops'[o] # ops[o]

C10_CancelPerCaller ==
    /\ [](\A c \in Callers : callers[c].cancelled => callers[c].status # "resolved")
    /\ [][\A o \in OpIds :
            C10_NetworkAbortedBySignal(o) =>
                \A c \in JoinedOn(o) : callers[c].cancelled]_vars

(***************************************************************************)
(* C11: with a retry policy of N attempts (3 by default) the network call  *)
(* is made at most N times, no attempt follows the first success, the wait *)
(* before the attempt that follows failed attempt i is i * 1000 ms, and    *)
(* when all N attempts fail the call rejects with the error of the last    *)
(* attempt, unwrapped.                                                     *)
(***************************************************************************)
C11_Attempts(op) ==
    /\ op.netCalls <= op.attempts
    /\ op.failures <= op.netCalls
    /\ op.phase = "backoff" =>
          /\ op.failures = op.i + 1
          /\ op.i < op.attempts - 1
          /\ op.wait = op.i * 1000
    /\ op.outcome.kind = "resolved" => op.netCalls = op.failures + 1
    /\ (op.attempts > 0 /\ op.failures = op.attempts) =>
          /\ op.phase = "settled"
          /\ op.outcome.kind = "rejected"
          /\ op.lastError = "TypeError" => op.outcome.value = "TypeError"
          /\ op.lastError = "AbortError" => op.outcome.value = "TimeoutError"

C12_TimerFired(o) ==
    /\ ops[o].phase = "net"
    /\ ~signalAborted(ops[o])
    /\ ops'[o].failures = ops[o].failures + 1
    /\ ops'[o].lastError = "AbortError"

C12_TimerStep ==
    \A o \in OpIds :
        C12_TimerFired(o) =>
            /\ \A p \in OpIds : p # o => ops'[p] = ops[p]
            /\ ops'[o].netCalls = ops[o].netCalls
            /\ callers' = callers /\ pendingRequests' = pendingRequests
            /\ IF ops[o].failures + 1 < ops[o].attempts
               THEN ops'[o].phase = "backoff" /\ ops'[o].outcome = Pending
               ELSE ops'[o].phase = "settled" /\ ops'[o].outcome = Rejected("TimeoutError")

C12_TimeoutPerAttempt ==
    /\ [][C12_TimerStep]_vars
    /\ [](\A o \in OpIds :
            ops[o].outcome = Rejected("TimeoutError") =>
                (ops[o].failures = ops[o].attempts /\ ops[o].lastError = "AbortError"))

C12_Witness ==
    \E o \in OpIds : \E c \in JoinedOn(o) :
        /\ ops[o].attempts = 3 /\ ops[o].failures = 3
        /\ ~callers[ops[o].owner].cancelled
        /\ callers[c].status = "rejected"
        /\ callers[c].outcome = Rejected("TimeoutError")


(***************************************************************************)
(* C13: when fetch() resolves from the network, the raw result is written  *)
(* to the cache first, then the machine moves to success with the selected *)
(* value, then onSuccess runs: whoever observes the success snapshot finds *)
(* the entry of this result in the cache.                                  *)
(***************************************************************************)
C13_FromNetwork(i) == qcalls[i].pc = "resolved" /\ qcalls[i].sent

C13_WriteThenSuccess ==
    \A i \in QCallIds :
        C13_FromNetwork(i) =>
            \E w, s, c \in DOMAIN qcalls[i].log :
                /\ w < s /\ s < c
                /\ qcalls[i].log[w][1] = "cache.set"
                /\ qcalls[i].log[s][1] = "transition" /\ qcalls[i].log[s][2] = "success"
                /\ qcalls[i].log[c][1] = "onSuccess"
                /\ qcalls[i].seen = qcalls[i].log[w][2]

(***************************************************************************)
(* C14: a fetch() that finds a fresh entry in the cache sends no request:  *)
(* it moves the machine loading -> success with the cached value (passed   *)
(* through select when there is one), calls onSuccess with it and returns  *)
(* it, and it leaves the cache as it was.                                  *)
(***************************************************************************)
C14_Selected(q, d) == IF queries[q].options.select THEN Select(d) ELSE d

C14_HitCall(c, entry) ==
    LET d == C14_Selected(c.query, entry.data)
    IN  /\ ~c.sent
        /\ c.pc = "resolved"
        /\ c.result = d
        /\ Len(c.log) = 4
        /\ c.log[1][1] = "transition" /\ c.log[1][2] = "loading"
        /\ c.log[2][1] = "transition" /\ c.log[2][2] = "success" /\ c.log[2][3] = d
        /\ c.log[3] = <<"onSuccess", d, Undefined>>
        /\ c.log[4] = <<"onSettled", d, Null>>

C14_FreshHit(q) ==
    /\ queries[q].options.enabled
    /\ queries[q].sm.state \in {"idle", "success", "error", "stale"}
    /\ cache[QueryKey] # NoEntry
    /\ now - cache[QueryKey].timestamp <= cache[QueryKey].staleTime

C14_HitStep ==
    \A q \in Queries :
        (/\ C14_FreshHit(q)
         /\ Len(qcalls') = Len(qcalls) + 1
         /\ qcalls'[Len(qcalls')].query = q) =>
            /\ C14_HitCall(qcalls'[Len(qcalls')], cache[QueryKey])
            /\ queries'[q].sm.state = "success"
            /\ queries'[q].sm.data = C14_Selected(q, cache[QueryKey].data)
            /\ cache' = cache

C15_Finished(i) == qcalls[i].pc \in {"resolved", "rejected"}

C15_Recorded(log, e) ==
    /\ \E k \in DOMAIN log : log[k][1] = "transition" /\ log[k][2] = "error" /\ log[k][4] = e
    /\ \E k \in DOMAIN log : log[k] = <<"onError", e, Undefined>>

C15_FetchSafe ==
    \A i \in QCallIds :
        C15_Finished(i) =>
            LET r == fetchSafe(qcalls[i])
            IN  /\ qcalls[i].pc = "resolved" <=> r.error = Null
                /\ qcalls[i].pc = "resolved" => r.data = qcalls[i].result
                /\ qcalls[i].pc = "rejected" =>
                      /\ r.data = Null
                      /\ r.error = qcalls[i].result
                      /\ C15_Recorded(qcalls[i].log, r.error)


(***************************************************************************)
(* C16: whichever branch a fetch() takes, its onSettled callback is called *)
(* exactly once, after the onSuccess or onError of the call, with the      *)
(* data and the error the call ended with.                                 *)
(***************************************************************************)
C16_SettleCalls(log) == {k \in DOMAIN log : log[k][1] = "onSettled"}

C16_SettledLast ==
    \A i \in QCallIds :
        qcalls[i].pc \in {"resolved", "rejected"} =>
            LET log == qcalls[i].log
            IN  /\ C16_SettleCalls(log) = {Len(log)}
                /\ Len(log) > 0
                /\ qcalls[i].pc = "resolved" => log[Len(log)][2] = qcalls[i].result
                /\ qcalls[i].pc = "rejected" => log[Len(log)][3] = qcalls[i].result


(***************************************************************************)
(* C17: fetch() on an instance constructed with enabled = false returns    *)
(* the placeholder value, or undefined when there is none, and does        *)
(* nothing else: no request, no transition, no new snapshot, no change of  *)
(* the cache.                                                              *)
(***************************************************************************)
C17_DisabledStep ==
    \A q \in Queries :
        (/\ queries[q].options.enabled = FALSE
         /\ Len(qcalls') = Len(qcalls) + 1
         /\ qcalls'[Len(qcalls')].query = q
         /\ qcalls'[Len(qcalls')].via = "fetch") =>
            LET c == qcalls'[Len(qcalls')]
            IN  /\ c.pc = "resolved"
                /\ c.result = queries[q].options.placeholderData
                /\ ~c.sent /\ ~c.fromCache
                /\ c.log = <<>>
                /\ queries'[q].sm = queries[q].sm
                /\ cache' = cache

C17_DisabledFetch ==
    /\ [][C17_DisabledStep]_vars
    /\ [](\A q \in Queries :
            queries[q].options.enabled = FALSE => queries[q].sm = NewStateMachine)

C17_Witness ==
    \E i, j \in QCallIds :
        /\ i < j
        /\ qcalls[i].via = "fetch" /\ qcalls[j].via = "fetch"
        /\ qcalls[i].query = "Q1" /\ qcalls[j].query = "Q1"
        /\ queries["Q1"].options.enabled = FALSE
        /\ qcalls[j].pc = "resolved" /\ qcalls[j].result = "placeholder"
        /\ cache[QueryKey].data = "d2"


(***************************************************************************)
(* C18: refetch() on an instance constructed with enabled = false runs the *)
(* whole sequence of fetch(): it moves the machine to loading, reads the   *)
(* cache and, on a miss, sends the request.  It never takes the shortcut   *)
(* of a disabled instance.                                                 *)
(***************************************************************************)
C18_RefetchRuns ==
    \A i \in QCallIds :
        (/\ qcalls[i].via = "refetch"
         /\ queries[qcalls[i].query].options.enabled = FALSE) =>
            /\ Len(qcalls[i].log) > 0
            /\ qcalls[i].log[1][1] = "transition" /\ qcalls[i].log[1][2] = "loading"
            /\ qcalls[i].sent \/ qcalls[i].fromCache


(***************************************************************************)
(* C19: when an instance calls fetch() while the request of another        *)
(* instance with the same key is still pending, no second request is sent: *)
(* the call shares the pending request and ends with its result.           *)
(***************************************************************************)
C19_OneRequestPerKey ==
    \A j \in QCallIds :
        (qcalls[j].otherPending /\ ~isDisabled(queries[qcalls[j].query].options)) =>
            /\ ~qcalls[j].sent
            /\ qcalls[j].pc # "rejected"
            /\ \A i \in QCallIds :
                  (/\ i < j
                   /\ qcalls[i].query # qcalls[j].query
                   /\ qcalls[i].sent
                   /\ qcalls[i].pc = "resolved"
                   /\ qcalls[j].pc = "resolved") => qcalls[j].result = qcalls[i].result


(***************************************************************************)
(* C20: when a mutate() constructed with a list of invalidation patterns   *)
(* resolves, every entry of the cache whose key matches one of the listed  *)
(* patterns is gone: each pattern of the list is applied by itself.        *)
(***************************************************************************)
C20_Listed(k) == \E n \in DOMAIN InvalidatesList : GlobMatch(InvalidatesList[n], k)

C20_ResolvedStep ==
    \A i \in MCallIds :
        (/\ mcalls[i].options.invalidates = "list"
         /\ mcalls[i].pc = "net"
         /\ mcalls'[i].pc = "resolved") =>
            \A k \in CacheKeys : C20_Listed(k) => cache'[k] = NoEntry

C20_ListInvalidates == [][C20_ResolvedStep]_vars


(***************************************************************************)
(* C21: the entry fetch() writes to the cache carries relationship         *)
(* metadata, the url template and the parameters of the query, so that     *)
(* invalidateRelated() of a related endpoint, as a successful mutate() in  *)
(* auto mode calls it, removes the entry.                                  *)
(***************************************************************************)
C21_WrittenByFetch(k) ==
    /\ k = QueryKey
    /\ cache[k] # NoEntry
    /\ \E i \in QCallIds : C13_FromNetwork(i)

C21_FetchWritesMeta ==
    \A k \in CacheKeys :
        C21_WrittenByFetch(k) =>
            /\ meta[k] # NoMeta
            /\ k \in relatedKeys(meta, MutUrl)


(***************************************************************************)
(* C22: when the write of a mutate() fails, the call restores the          *)
(* optimistic edits, then moves the machine to error, then calls onError   *)
(* with the error, the variables and the context its onMutate returned; it *)
(* rejects with that error and runs no invalidation.                       *)
(***************************************************************************)
C22_Ordered(call) ==
    \E r, t, c \in DOMAIN call.log :
        /\ r < t /\ t < c
        /\ call.log[r][1] = "rollback"
        /\ call.log[t][1] = "transition" /\ call.log[t][2] = "error"
        /\ call.log[t][4] = call.result
        /\ call.log[c][1] = "onError"
        /\ call.log[c][2] = call.result
        /\ call.log[c][3] = call.variables
        /\ call.options.onMutate = "context" => call.log[c][4] = ContextOf(call.variables)

C22_FailedWrite ==
    \A i \in MCallIds :
        mcalls[i].failed =>
            /\ mcalls[i].pc = "rejected"
            /\ mcalls[i].result \in WriteErrors
            /\ C22_Ordered(mcalls[i])
            /\ \A k \in DOMAIN mcalls[i].log : mcalls[i].log[k][1] # "invalidate"
            /\ (mcalls[i].applied /\ OnlyWriter(i)) =>
                  EntryData(cache, MutKey) = mcalls[i].before


(***************************************************************************)
(* C23: when the restore of a failed write fails itself, because a handler *)
(* run for it throws, mutate() still rejects with the error of the write:  *)
(* the failure of the rollback never takes its place.                      *)
(***************************************************************************)
C23_RollbackFailed(i) == mcalls[i].failed /\ mcalls[i].options.onRollback = "throws"

C23_OriginalErrorKept ==
    \A i \in MCallIds :
        C23_RollbackFailed(i) =>
            /\ mcalls[i].pc = "rejected"
            /\ mcalls[i].result \in WriteErrors


(***************************************************************************)
(* C24: when the optimistic function throws, mutate() goes on: the write   *)
(* is sent and decides how the call ends, and the cache is as it was       *)
(* before the optimistic function ran.                                     *)
(***************************************************************************)
C24_PastOptimistic(i) ==
    /\ i \in 1..Len(mcalls')
    /\ optimisticThrows(mcalls'[i].options.optimistic)
    /\ mcalls'[i].pc = "net"
    /\ i > Len(mcalls) \/ mcalls[i].pc = "onMutate"

C24_OptimisticStep ==
    \A i \in 1..(Len(mcalls) + 1) : C24_PastOptimistic(i) => cache' = cache

C24_WriteDecides(i) ==
    /\ mcalls[i].sent
    /\ mcalls[i].pc = "rejected" =>
          (mcalls[i].failed \/ mcalls[i].result = InvalidTransition)

C24_OptimisticThrows ==
    /\ [][C24_OptimisticStep]_vars
    /\ [](\A i \in MCallIds :
            (optimisticThrows(mcalls[i].options.optimistic) /\ mcalls[i].accepted) =>
                C24_WriteDecides(i))


(***************************************************************************)
(* C25: update(key, fn) fails with a not-found error when the key has no   *)
(* entry and leaves the cache as it was; it fails with an update-failed    *)
(* error when fn throws and leaves the entry as it was; when fn returns,   *)
(* the value of the entry becomes fn(old value) and nothing else changes.  *)
(***************************************************************************)
C25_Swapped(d) == IF d = "d1" THEN "d2" ELSE "d1"

C25_Expected(k, u) ==
    IF cache[k] = NoEntry
    THEN cacheLast'.result = "CacheError: not found" /\ cache' = cache
    ELSE IF u = "throws"
    THEN cacheLast'.result = "CacheError: failed to update" /\ cache' = cache
    ELSE /\ cacheLast'.result = "ok"
         /\ cache'[k].data = C25_Swapped(cache[k].data)
         /\ cache'[k].timestamp = cache[k].timestamp
         /\ cache'[k].staleTime = cache[k].staleTime
         /\ \A j \in CacheKeys \ {k} : cache'[j] = cache[j]

C25_UpdateStep ==
    \A k \in TimedKeys, u \in Updaters :
        (/\ cacheLast'.op = "update"
         /\ cacheLast'.key = k
         /\ cacheLast'.result = updateOutcome(cache, k, u)
         /\ cache' = update(cache, k, u)) => C25_Expected(k, u)

C26_Removals == {"invalidate", "invalidateArray", "invalidateRelated", "clear"}

C26_Aged(k) == cache[k] # NoEntry /\ now - cache[k].timestamp > cache[k].staleTime

C26_KeepStep ==
    cacheLast'.op \notin C26_Removals =>
        /\ keys(cache) \subseteq keys(cache')
        /\ size(cache') >= size(cache)
        /\ \A k \in CacheKeys : C26_Aged(k) => has(cache', k)

C26_StaleStays ==
    /\ [][C26_KeepStep]_vars
    /\ [](\A k \in CacheKeys :
            C26_Aged(k) => (get(cache, k, now) = Undefined /\ k \in keys(cache)))

C26_Witness ==
    /\ cacheLast.op = "get"
    /\ cacheLast.result = Undefined
    /\ C26_Aged(cacheLast.key)
    /\ has(cache, cacheLast.key)
    /\ size(cache) = 2


(***************************************************************************)
(* C27: every accepted transition appends exactly one snapshot to the      *)
(* history and, before transition() returns, calls every subscribed        *)
(* listener exactly once with that snapshot, in the order of registration; *)
(* a listener that was unsubscribed is called no more.                     *)
(***************************************************************************)
\* the snapshots a step appended to the history
C27_Appended == SubSeq(sm'.history, Len(sm.history) + 1, Len(sm'.history))

\* the transitions accepted within a call: the call itself and the one the
\* listener R1 makes when it is handed a loading snapshot
C27_Accepted == IF smLast'.to = "loading" /\ InSeq(listeners, "R1") THEN 2 ELSE 1

C27_DeliveriesOf(snapshot) == SelectSeq(notified', LAMBDA d : d[2] = snapshot)

C27_TransitionStep ==
    (smLast'.op = "transition" /\ smLast'.outcome = "ok") =>
        /\ Len(C27_Appended) = C27_Accepted
        /\ SubSeq(sm'.history, 1, Len(sm.history)) = sm.history
        /\ Len(notified') = C27_Accepted * Len(listeners)
        /\ \A k \in DOMAIN C27_Appended :
              C27_DeliveriesOf(C27_Appended[k]) =
                  [i \in 1..Len(listeners) |-> <<listeners[i], C27_Appended[k]>>]

C28_Later(a, b) == notified[a][2].state = "success" /\ notified[b][2].state = "loading"

C28_FifoNotification ==
    /\ \A a, b \in DOMAIN notified :
          (a < b /\ notified[a][1] = notified[b][1]) => ~C28_Later(a, b)
    /\ \A a, b \in DOMAIN notified : a < b => ~C28_Later(a, b)


(***************************************************************************)
(* C29: a transition made without a data argument keeps the data recorded  *)
(* before it in its snapshot: after success(d), loading, error(e) the data *)
(* of the machine is still d.                                              *)
(***************************************************************************)
\* the call of this step was transition(s, undefined, e)
C29_WithoutData(s, e) ==
    /\ smLast'.op = "transition" /\ smLast'.outcome = "ok" /\ smLast'.to = s
    /\ sm' = pushAndNotify(sm, listeners, s, Undefined, e, now).sm

C29_KeepStep ==
    \A s \in State, e \in ErrorArgs :
        C29_WithoutData(s, e) =>
            /\ sm'.history[Len(sm.history) + 1].data = sm.data
            /\ sm'.history[Len(sm.history) + 1].state = s
            /\ (s # "loading" \/ ~InSeq(listeners, "R1")) => sm'.data = sm.data

C29_DataKept == [][C29_KeepStep]_vars

C29_Witness ==
    /\ smLast.op = "transition" /\ smLast.outcome = "ok" /\ smLast.to = "error"
    /\ Len(sm.history) = 4
    /\ sm.history[2].state = "success" /\ sm.history[2].data = "d2"
    /\ sm.history[3].state = "loading" /\ sm.history[3].data = "d2"
    /\ sm.state = "error" /\ sm.error = "e1" /\ sm.data = "d2"

(***************************************************************************)
(* C30: from any phase reset() leaves the machine idle, with no data, no   *)
(* error and an empty history; no other operation shortens or rewrites the *)
(* history.                                                                *)
(***************************************************************************)
C30_Blank == [state |-> "idle", data |-> Undefined, error |-> Null, history |-> <<>>]

C30_Step ==
    /\ smLast'.op = "reset" => sm' = C30_Blank
    /\ smLast'.op # "reset" =>
          /\ Len(sm'.history) >= Len(sm.history)
          /\ SubSeq(sm'.history, 1, Len(sm.history)) = sm.history

C30_ResetClears == [][C30_Step]_vars

C30_Witness ==
    /\ smLast.op = "reset" /\ smLast.from = "stale"
    /\ sm = C30_Blank
    /\ Len(listeners) = 2


(***************************************************************************)
(* C31: invalidateRelated(endpoint) deletes exactly the entries whose      *)
(* metadata the heuristic judges related, and keeps every other entry.     *)
(* The heuristic, in order: an identical template is not related; if both  *)
(* templates contain an identifier segment, they are related iff their     *)
(* resolved identifier values are equal; otherwise they are related iff    *)
(* the literal prefix of one, parameter segments stripped, is a prefix of  *)
(* the other.                                                              *)
(***************************************************************************)
\* the template has a path segment :id, in the middle or at its end
C31_IdSegment(url) ==
    \/ Includes(url, <<"/", ":", "i", "d", "/">>)
    \/ (Len(url) >= 4 /\ SubSeq(url, Len(url) - 3, Len(url)) = <<"/", ":", "i", "d">>)

\* the identifier value an endpoint resolves to: invalidateRelated() is given
\* the endpoint alone, and a template holds no value
C31_ResolvedId(url) == UndefVal

C31_Related(url1, url2, params2) ==
    IF url1 = url2 THEN FALSE
    ELSE IF C31_IdSegment(url1) /\ C31_IdSegment(url2)
         THEN C31_ResolvedId(url1) = ParamsGet(params2, ID)
    ELSE \/ StartsWith(url1, StripParams(url2))
         \/ StartsWith(url2, StripParams(url1))

C31_Judged(url, k) ==
    meta[k] # NoMeta /\ C31_Related(url, meta[k].url, meta[k].params)

C31_InvalidateRelatedExact ==
    [][cacheLast'.op = "invalidateRelated" =>
          \A k \in CacheKeys :
              cache'[k] = IF C31_Judged(cacheLast'.key, k) THEN NoEntry ELSE cache[k]]_vars


(***************************************************************************)
(* C32: when a call is aborted while it waits in a retry backoff delay,    *)
(* the delay is cancelled at once: no backoff timer of an aborted call     *)
(* remains pending, and no further attempt is started for it.              *)
(***************************************************************************)
C32_AbortedInBackoff(o) == callers[ops[o].owner].abortedIn = "backoff"

C32_AbortCancelsBackoff ==
    /\ [](\A o \in OpIds : C32_AbortedInBackoff(o) => ops[o].phase # "backoff")
    /\ [][\A o \in OpIds :
              C32_AbortedInBackoff(o) => ops'[o].netCalls = ops[o].netCalls]_vars


(***************************************************************************)
(* C33: a key has a pending-request entry exactly while an operation for   *)
(* it is in flight: the entry is there as long as the operation has not    *)
(* settled, the call that started the operation removes it when it resumes *)
(* with the settled outcome, a success or a failure, and a request that    *)
(* comes after that starts a new operation.  No entry outlives the call    *)
(* that made it.                                                           *)
(***************************************************************************)
C33_Entries ==
    /\ \A k \in ReqKeys :
          pendingRequests[k] # NoOp =>
              /\ pendingRequests[k] \in OpIds
              /\ ops[pendingRequests[k]].key = k
    /\ \A o \in OpIds :
          /\ ops[o].phase # "settled" => pendingRequests[ops[o].key] = o
          /\ pendingRequests[ops[o].key] = o <=>
                (callers[ops[o].owner].op = o /\ callers[ops[o].owner].status = "waiting")

C33_Removed ==
    \A c \in Callers :
        (/\ callers[c].role = "owner"
         /\ callers[c].status = "waiting"
         /\ callers'[c].status \in {"resolved", "rejected"}) =>
            /\ ops[callers[c].op].phase = "settled"
            /\ pendingRequests'[callers[c].key] = NoOp

C33_LaterStartsNew ==
    \A c \in Callers :
        (/\ callers[c].status = "idle"
         /\ callers'[c].status = "waiting"
         /\ pendingRequests[callers'[c].key] = NoOp) =>
            /\ Len(ops') = Len(ops) + 1
            /\ callers'[c].op = Len(ops')
            /\ callers'[c].role = "owner"
            /\ pendingRequests'[callers'[c].key] = Len(ops')

C33_PendingWhileInFlight ==
    []C33_Entries /\ [][C33_Removed /\ C33_LaterStartsNew]_vars

\* an operation failed, its entry is gone, and a later request for the key has
\* started a second operation, which now holds the entry
C33_Witness ==
    \E o1, o2 \in OpIds :
        /\ o1 < o2 /\ ops[o1].key = ops[o2].key
        /\ ops[o1].outcome.kind = "rejected" /\ ops[o1].netCalls > 0
        /\ callers[ops[o1].owner].status = "rejected"
        /\ ops[o2].phase = "net"
        /\ pendingRequests[ops[o2].key] = o2


(***************************************************************************)
(* C37: in the request handler an abort of the caller's signal is treated  *)
(* like a timeout.  The aborted attempt counts as a failed attempt and is  *)
(* retried like one, every retry ends with the abort in its turn, and      *)
(* after the last attempt the call rejects with the timeout error, not     *)
(* with a cancellation.                                                    *)
(***************************************************************************)
C37_AbortedStep ==
    \A o \in OpIds :
        (/\ ops[o].phase = "net"
         /\ signalAborted(ops[o])
         /\ ops'[o] # ops[o]) =>
            /\ ops'[o].failures = ops[o].failures + 1
            /\ ops'[o].lastError = "AbortError"
            /\ IF ops[o].i < ops[o].attempts - 1
               THEN /\ ops'[o].phase = "backoff"
                    /\ ops'[o].wait = ops[o].i * 1000
                    /\ ops'[o].outcome = Pending
               ELSE /\ ops'[o].phase = "settled"
                    /\ ops'[o].outcome = Rejected("TimeoutError")

C37_AbortedOutcome ==
    \A o \in OpIds :
        (signalAborted(ops[o]) /\ ops[o].phase = "settled") =>
            /\ ops[o].outcome = Rejected("TimeoutError")
            /\ ops[o].netCalls = ops[o].attempts
            /\ ops[o].lastError = "AbortError"

C38_Boolean(op) == op.retry = "boolean"

C38_Attempts ==
    \A o \in OpIds :
        /\ C38_Boolean(ops[o]) =>
              /\ ops[o].attempts = 3
              /\ ops[o].netCalls \in 1..3
              /\ ops[o].failures \in {1, 2} =>
                    ops[o].outcome \notin {Rejected("TypeError"), Rejected("TimeoutError")}
              /\ ops[o].failures = 3 =>
                    (ops[o].netCalls = 3 /\ ops[o].outcome.kind = "rejected")
        /\ (ops[o].retry = "number" /\ ops[o].attempts = 0) =>
              /\ ops[o].netCalls = 0
              /\ ops[o].phase = "settled"
              /\ ops[o].outcome = Rejected("RetryFailed")
        /\ ops[o].retry = "number" => ops[o].netCalls <= ops[o].attempts
        /\ ops[o].retry = "undefined" => ops[o].attempts = 3

C38_RetryNumberOnly == []C38_Attempts

\* a call with a boolean retry failed three times, and a call with retry: 0 was
\* rejected without a network call
C38_Witness ==
    \E o, p \in OpIds :
        /\ C38_Boolean(ops[o]) /\ ops[o].netCalls = 3 /\ ops[o].failures = 3
        /\ ops[o].outcome = Rejected("TypeError")
        /\ ops[p].retry = "number" /\ ops[p].attempts = 0 /\ ops[p].netCalls = 0
        /\ callers[ops[p].owner].outcome = Rejected("RetryFailed")


(***************************************************************************)
(* C39: invalidate() with a string pattern is an unanchored match: it      *)
(* deletes every key that contains a substring matching the pattern, so a  *)
(* pattern without '*', an exact key, also deletes every longer key that   *)
(* contains it.  A pattern made of plain characters and '*' deletes no     *)
(* other key.                                                              *)
(***************************************************************************)
\* some piece of the key matches the glob p
C39_Contains(p, k) ==
    \E i \in 1..(Len(k) + 1) : \E j \in (i - 1)..Len(k) : GlobMatch(p, SubSeq(k, i, j))

\* no character of p but '*' is an operator of regular expressions
C39_Plain(p) == \A i \in 1..Len(p) : p[i] \notin {"|", "."}

C35_Independent ==
    [][\A q \in Queries :
          (/\ Len(qcalls') = Len(qcalls) + 1
           /\ qcalls'[Len(qcalls')].query = q
           /\ isValidTransition(queries[q].sm.state, "loading")) =>
                /\ qcalls'[Len(qcalls')].pc # "rejected"
                /\ queries'[q].sm.state = "loading" => qcalls'[Len(qcalls')].pc = "net"]_vars


(***************************************************************************)
(* C34: every loading phase entered by fetch() or mutate() is followed by  *)
(* success or error once the network has answered: when all the calls made *)
(* on an instance have settled, the instance is not in loading.            *)
(***************************************************************************)
C34_QuerySettled(q) ==
    \A i \in QCallIds : qcalls[i].query = q => qcalls[i].pc \in {"resolved", "rejected"}

C34_MutationSettled(m) ==
    \A i \in MCallIds : mcalls[i].mut = m => mcalls[i].pc \in {"resolved", "rejected"}

C34_LoadingEnds ==
    /\ \A q \in Queries : C34_QuerySettled(q) => queries[q].sm.state # "loading"
    /\ \A m \in Muts : C34_MutationSettled(m) => muts[m].sm.state # "loading"


(***************************************************************************)
(* C36: a rollback is requested only for a mutate() whose write failed.  A *)
(* call whose write the network answered with success never emits a        *)
(* rollback and never rejects, also when its success callback or a handler *)
(* of its invalidation throws.                                             *)
(***************************************************************************)
C36_WriteSucceeded(i) ==
    /\ mcalls[i].sent
    /\ mcalls[i].pc \in {"resolved", "rejected"}
    /\ ~mcalls[i].failed

C36_RollbackOnlyOnFailure ==
    \A i \in MCallIds :
        C36_WriteSucceeded(i) =>
            /\ mcalls[i].pc = "resolved"
            /\ \A k \in DOMAIN mcalls[i].log : mcalls[i].log[k][1] # "rollback"


(***************************************************************************)
(* C40: when reset() is called on a mutation instance while a mutate() is  *)
(* in flight and the write then succeeds, the call does not resolve.  It   *)
(* rejects with the invalid-transition error (with the error of the        *)
(* rollback handler when that handler throws), the success callback and    *)
(* the invalidation are skipped, a rollback is emitted, and the instance   *)
(* stays idle.                                                             *)
(***************************************************************************)
\* the write of call i is answered with success while the instance, reset
\* since the call began, is idle
C40_SucceedsAfterReset(i) ==
    /\ mcalls[i].pc = "net"
    /\ muts[mcalls[i].mut].sm.state = "idle"
    /\ mcalls'[i].pc # "net"
    /\ ~mcalls'[i].failed

C40_Step ==
    \A i \in MCallIds :
        C40_SucceedsAfterReset(i) =>
            LET m == mcalls[i].mut
            IN  /\ mcalls'[i].pc = "rejected"
                /\ mcalls'[i].result = IF mcalls[i].options.onRollback = "throws"
                                       THEN RollbackError ELSE InvalidTransition
                /\ mcalls'[i].log = mcalls[i].log \o
                      <<Rolled(muts[m].optimisticContext),
                        MSettled(muts[m].sm, mcalls[i].variables)>>
                /\ muts'[m].sm = muts[m].sm
                /\ muts'[m].sm.state = "idle"
                /\ cache' = cache /\ meta' = meta

====
